---- MODULE Spec2Model ----
(***************************************************************************)
(* Kalah: the board, the rules (sowing, capture, extra turn, termination,  *)
(* finalization, winner) and the game state that applies moves.            *)
(*                                                                         *)
(* Pit indices, players and move kinds keep the values of the source:      *)
(* board.pits is a function on 0..2P-1 (South row 0..P-1, North row        *)
(* P..2P-1), players are 0 (South) and 1 (North), Python's None is NONE.   *)
(***************************************************************************)
EXTENDS Integers, Sequences, FiniteSets, TLC

\* ---- program constants (src/src/utils/constants.py) ----
DEFAULT_PITS_PER_ROW == 6
DEFAULT_COUNTERS_PER_PIT == 4
PLAYER_SOUTH == 0
PLAYER_NORTH == 1
MOVE_NORMAL == 0
MOVE_EXTRA_TURN == 1
MOVE_CAPTURE == 2

\* Python's None (last_pit_index, the winner of a draw, a value not returned)
NONE == -1

\* play_game: max_moves = 500, the safety limit
SAFETY_LIMIT == 500

\* the largest game of the configuration panel: pits per row, counters per pit
MAX_PITS_PER_ROW == 10
MAX_COUNTERS_PER_PIT == 10

\* _simulate: max_moves = 200, the safety limit of a playout
ROLLOUT_LIMIT == 200

\* the least number of iterations the configuration panel offers for MCTS
MIN_MCTS_ITERATIONS == 100

\* the least depth the configuration panel offers for Minimax
MIN_MINIMAX_DEPTH == 1

\* ---- bounds of the model ----
\* a fresh game: rows of 1..MaxPits pits, 1..MaxCounters counters per pit,
\* at most MaxRowCounters counters in a row
MaxPits == 3
MaxCounters == 3
MaxRowCounters == 6
\* max_moves of the driver of a game from a fresh board (500 in play_game)
MaxMoves == 40
\* a game with the default configuration is followed for MaxDefaultMoves moves
MaxDefaultMoves == 3
\* at most MaxStates GameState objects are alive at a time
MaxStates == 4
\* at most MaxFinalized boards returned by finalize_game are alive at a time
MaxFinalized == 1
\* the games whose objects are followed
MaxHeapPits == 2
MaxHeapCounters == 2
\* boards set up position by position: rows of 1..MaxBoardPits pits, at most
\* MaxBoardCounters counters in the pits, 0..MaxStoreFill in each store,
\* followed for MaxBoardMoves moves
MaxBoardPits == 2
MaxBoardCounters == 6
MaxStoreFill == 1
MaxBoardMoves == 1
\* play_game with agents that may return anything: rows of 1..MaxPlayPits
\* pits, at most MaxPlayRow counters in a row at the start
MaxPlayPits == 3
MaxPlayRow == 4
\* the states handed to MinimaxAgent: rows of 1..MaxAgentPits pits, at most
\* MaxAgentTotal counters in the pits and empty stores
MaxAgentPits == 3
MaxAgentTotal == 4
\* MinimaxAgent(depth) with depth in 1..MaxDepth
MaxDepth == 3
\* the nodes handed to _minimax: rows of 1..MaxNodePits pits, at most
\* MaxNodeTotal counters in the pits, at most MaxAgentStore in each store,
\* depth in 0..MaxNodeDepth
MaxNodePits == 2
MaxNodeTotal == 3
MaxAgentStore == 1
MaxNodeDepth == 2
\* the states handed to every kind of agent: rows of 1..MaxSearchPits pits,
\* at most MaxSearchTotal counters in the pits, at most MaxSearchStore in
\* each store; depth in 0..MaxSearchDepth, iterations in 0..MaxIterations
MaxSearchPits == 2
MaxSearchTotal == 4
MaxSearchStore == 0
MaxSearchDepth == 2
MaxIterations == 3
\* the states handed to MCTSAgent(iterations=100): rows of MaxTrialPits
\* pits, at most MaxTrialTotal counters in the pits
MaxTrialPits == 3
MaxTrialTotal == 3
\* batches: at most MaxWorkers threads are started, each plays at most
\* MaxGames games
MaxWorkers == 2
MaxGames == 2
\* the states playouts start from: rows of 1..MaxRolloutPits pits, at most
\* MaxRolloutTotal counters in the pits, at most MaxRolloutStore in each
\* store (and the fresh board of the largest configuration)
MaxRolloutPits == 2
MaxRolloutTotal == 4
MaxRolloutStore == 1
\* the states handed to Heuristics.evaluate_position: rows of
\* 1..MaxHeuristicPits pits, 0..MaxHeuristicCounters counters in each pit,
\* 0..MaxHeuristicStore in each store
MaxHeuristicPits == 2
MaxHeuristicCounters == 3
MaxHeuristicStore == 1
\* evaluate_position on the states of a game with the default configuration
\* that is followed for MaxHeuristicMoves moves
MaxHeuristicMoves == 4
\* the states handed to MCTSEnhancedAgent when its heuristic values are
\* followed: rows of 1..MaxEnhancedPits pits, at most MaxEnhancedTotal
\* counters in the pits, at most MaxEnhancedStore in each store, iterations
\* in 0..MaxEnhancedIterations
MaxEnhancedPits == 2
MaxEnhancedTotal == 4
MaxEnhancedStore == 1
MaxEnhancedIterations == 3
\* scores of select_child closer than UcbTolerance/10000 are not told apart
UcbTolerance == 6

VARIABLES cfg, max_moves, board, current_player, move_count, last

\* the objects of the program that are shared by reference: Board objects,
\* Python lists (the pits of a board, the move_history of a state) and
\* GameState objects; a reference is an index into these sequences
VARIABLES boards, lists, states
VARIABLES pc, agents, move_history, result
VARIABLES agent, search_pc, tree, iteration
VARIABLES is_running, workers

rules_vars == <<cfg, max_moves, board, current_player, move_count, last>>

heap_vars == <<boards, lists, states>>
play_vars == <<pc, agents, move_history, result>>
search_vars == <<agent, search_pc, tree, iteration>>
batch_vars == <<is_running, workers>>

vars == <<rules_vars, heap_vars, play_vars, search_vars, batch_vars>>

\* ---- Board (src/src/game/board.py) ----

\* Board.__init__: all 2P pits hold counters_per_pit, both stores are 0
NewBoard(pits_per_row, counters_per_pit) ==
    [pits_per_row |-> pits_per_row,
     counters_per_pit |-> counters_per_pit,
     pits |-> [i \in 0..(2 * pits_per_row - 1) |-> counters_per_pit],
     south_kalah |-> 0,
     north_kalah |-> 0]

\* Board.copy: a fresh Board(pits_per_row, 0) that takes over pits and stores
Copy(b) ==
    [NewBoard(b.pits_per_row, 0) EXCEPT
        !.pits = b.pits,
        !.south_kalah = b.south_kalah,
        !.north_kalah = b.north_kalah]

\* Variant of is_empty_row: North's row taken from index P+1, as in the layout
\* comment of Board.__init__ ("North pits: indices pits_per_row+1 ...")
is_empty_row_north_from_p1(b, player) ==
    IF player = 0
    THEN \A i \in 0..(b.pits_per_row - 1) : b.pits[i] = 0
    ELSE \A i \in (b.pits_per_row + 1)..(2 * b.pits_per_row - 1) :
            b.pits[i] = 0

\* Board.is_empty_row
is_empty_row(b, player) ==
    IF player = 0
    THEN \A i \in 0..(b.pits_per_row - 1) : b.pits[i] = 0
    ELSE \A i \in b.pits_per_row..(2 * b.pits_per_row - 1) : b.pits[i] = 0

\* Board.get_pit: the pit of a row by its row-relative index
get_pit(b, player, pit_index) ==
    IF player = 0 THEN b.pits[pit_index]
    ELSE b.pits[b.pits_per_row + pit_index]

\* Board.get_kalah
get_kalah(b, player) ==
    IF player = 0 THEN b.south_kalah ELSE b.north_kalah

\* sum of f over the indices lo..hi
RECURSIVE SumRange(_, _, _)
SumRange(f, lo, hi) ==
    IF lo > hi THEN 0 ELSE f[lo] + SumRange(f, lo + 1, hi)

\* Board.get_total_counters: sum(self.pits), the stores excluded
get_total_counters(b) == SumRange(b.pits, 0, 2 * b.pits_per_row - 1)

\* ---- Rules (src/src/game/rules.py) ----

\* range(n) as a sequence: 0, 1, ..., n-1
range(n) == [k \in 1..n |-> k - 1]

\* Variant of get_legal_moves: North's pits read without the row offset
get_legal_moves_no_offset(b, player) ==
    IF player = PLAYER_SOUTH
    THEN SelectSeq(range(b.pits_per_row), LAMBDA i : b.pits[i] > 0)
    ELSE SelectSeq(range(b.pits_per_row), LAMBDA i : b.pits[i] > 0)

\* Rules.get_legal_moves: the row-relative indices, appended in loop order
get_legal_moves(b, player) ==
    IF player = PLAYER_SOUTH
    THEN SelectSeq(range(b.pits_per_row), LAMBDA i : b.pits[i] > 0)
    ELSE SelectSeq(range(b.pits_per_row),
                   LAMBDA i : b.pits[b.pits_per_row + i] > 0)

\* Rules._is_own_pit
is_own_pit(pit_index, player, pits_per_row) ==
    IF player = PLAYER_SOUTH
    THEN 0 <= pit_index /\ pit_index < pits_per_row
    ELSE pits_per_row <= pit_index /\ pit_index < 2 * pits_per_row

\* Variant of _get_opposite_pit: the pit with the same row-relative index
\* instead of the mirrored one
get_opposite_pit_same_index(pit_index, pits_per_row) ==
    IF pit_index < pits_per_row
    THEN pits_per_row + pit_index
    ELSE pit_index - pits_per_row

\* Rules._get_opposite_pit
get_opposite_pit(pit_index, pits_per_row) ==
    IF pit_index < pits_per_row
    THEN 2 * pits_per_row - 1 - pit_index
    ELSE pits_per_row - 1 - (pit_index - pits_per_row)

\* Variant of the loop body: the opponent's store is not skipped
SowStep_no_skip(st, player, opponent) ==
    LET ppr == st.new_board.pits_per_row
        len_positions == 2 * ppr + 2
        south_kalah_pos == ppr
        north_kalah_pos == 2 * ppr + 1
        pos_index == (st.pos_index + 1) % len_positions
    IN  IF pos_index = south_kalah_pos
        THEN [new_board |-> [st.new_board EXCEPT !.south_kalah = @ + 1],
              pos_index |-> pos_index,
              last_was_kalah |-> (player = PLAYER_SOUTH),
              last_pit_index |-> NONE]
        ELSE IF pos_index = north_kalah_pos
        THEN [new_board |-> [st.new_board EXCEPT !.north_kalah = @ + 1],
              pos_index |-> pos_index,
              last_was_kalah |-> (player = PLAYER_NORTH),
              last_pit_index |-> NONE]
        ELSE LET pit_idx == IF pos_index < ppr THEN pos_index
                            ELSE pos_index - 1
             IN  [new_board |-> [st.new_board EXCEPT !.pits[pit_idx] = @ + 1],
                  pos_index |-> pos_index,
                  last_was_kalah |-> FALSE,
                  last_pit_index |-> pit_idx]

\* Variant of the loop body: last_was_kalah is not reset when a counter is
\* placed in a pit
SowStep_sticky_kalah(st, player, opponent) ==
    LET ppr == st.new_board.pits_per_row
        len_positions == 2 * ppr + 2
        south_kalah_pos == ppr
        north_kalah_pos == 2 * ppr + 1
        advanced == (st.pos_index + 1) % len_positions
        pos_index ==
            IF \/ (advanced = south_kalah_pos /\ opponent = PLAYER_SOUTH)
               \/ (advanced = north_kalah_pos /\ opponent = PLAYER_NORTH)
            THEN (advanced + 1) % len_positions
            ELSE advanced
    IN  IF pos_index = south_kalah_pos
        THEN [new_board |-> [st.new_board EXCEPT !.south_kalah = @ + 1],
              pos_index |-> pos_index,
              last_was_kalah |-> (player = PLAYER_SOUTH),
              last_pit_index |-> NONE]
        ELSE IF pos_index = north_kalah_pos
        THEN [new_board |-> [st.new_board EXCEPT !.north_kalah = @ + 1],
              pos_index |-> pos_index,
              last_was_kalah |-> (player = PLAYER_NORTH),
              last_pit_index |-> NONE]
        ELSE LET pit_idx == IF pos_index < ppr THEN pos_index
                            ELSE pos_index - 1
             IN  [new_board |-> [st.new_board EXCEPT !.pits[pit_idx] = @ + 1],
                  pos_index |-> pos_index,
                  last_was_kalah |-> st.last_was_kalah,
                  last_pit_index |-> pit_idx]

\* One iteration of the sowing loop of Rules.apply_move.  st holds the loop's
\* variables: new_board, pos_index, last_was_kalah, last_pit_index.
SowStep(st, player, opponent) ==
    LET ppr == st.new_board.pits_per_row
        len_positions == 2 * ppr + 2
        south_kalah_pos == ppr
        north_kalah_pos == 2 * ppr + 1
        advanced == (st.pos_index + 1) % len_positions
        pos_index ==
            IF \/ (advanced = south_kalah_pos /\ opponent = PLAYER_SOUTH)
               \/ (advanced = north_kalah_pos /\ opponent = PLAYER_NORTH)
            THEN (advanced + 1) % len_positions
            ELSE advanced
    IN  IF pos_index = south_kalah_pos
        THEN [new_board |-> [st.new_board EXCEPT !.south_kalah = @ + 1],
              pos_index |-> pos_index,
              last_was_kalah |-> (player = PLAYER_SOUTH),
              last_pit_index |-> NONE]
        ELSE IF pos_index = north_kalah_pos
        THEN [new_board |-> [st.new_board EXCEPT !.north_kalah = @ + 1],
              pos_index |-> pos_index,
              last_was_kalah |-> (player = PLAYER_NORTH),
              last_pit_index |-> NONE]
        ELSE LET pit_idx == IF pos_index < ppr THEN pos_index
                            ELSE pos_index - 1
             IN  [new_board |-> [st.new_board EXCEPT !.pits[pit_idx] = @ + 1],
                  pos_index |-> pos_index,
                  last_was_kalah |-> FALSE,
                  last_pit_index |-> pit_idx]

\* Variant of the loop: one iteration short, range(counters - 1)
RECURSIVE Sow_one_short(_, _, _, _)
Sow_one_short(st, player, opponent, n) ==
    IF n <= 1 THEN st
    ELSE Sow_one_short(SowStep(st, player, opponent), player, opponent, n - 1)

\* for _ in range(counters): the loop body n times.  The state a pass leaves
\* is evaluated before the next pass starts (its position is a position of
\* the board, never negative), so that the evaluation does not nest n deep.
RECURSIVE Sow(_, _, _, _)
Sow(st, player, opponent, n) ==
    IF n = 0 THEN st
    ELSE LET Pass(next) ==
                 IF next.pos_index >= 0
                 THEN Sow(next, player, opponent, n - 1)
                 ELSE next
         IN  Pass(SowStep(st, player, opponent))

\* Variant of the capture: the landed counter is not added to the store
Capture_without_landed(sown, player, last_pit_index) ==
    LET ppr == sown.pits_per_row
    IN  IF /\ last_pit_index # NONE
           /\ is_own_pit(last_pit_index, player, ppr)
           /\ sown.pits[last_pit_index] = 1
        THEN LET opposite == get_opposite_pit(last_pit_index, ppr)
             IN  IF sown.pits[opposite] > 0
                 THEN LET captured == sown.pits[opposite]
                          emptied == [sown EXCEPT
                                        !.pits[opposite] = 0,
                                        !.pits[last_pit_index] = 0]
                      IN  [new_board |->
                              IF player = PLAYER_SOUTH
                              THEN [emptied EXCEPT !.south_kalah = @ + captured]
                              ELSE [emptied EXCEPT !.north_kalah = @ + captured],
                           move_type |-> MOVE_CAPTURE,
                           next_player |-> 1 - player]
                 ELSE [new_board |-> sown, move_type |-> MOVE_NORMAL,
                       next_player |-> 1 - player]
        ELSE [new_board |-> sown, move_type |-> MOVE_NORMAL,
              next_player |-> 1 - player]

\* Variant of the capture: the opposite pit is not tested for counters
Capture_empty_opposite(sown, player, last_pit_index) ==
    LET ppr == sown.pits_per_row
    IN  IF /\ last_pit_index # NONE
           /\ is_own_pit(last_pit_index, player, ppr)
           /\ sown.pits[last_pit_index] = 1
        THEN LET opposite == get_opposite_pit(last_pit_index, ppr)
                 captured == sown.pits[opposite] + 1
                 emptied == [sown EXCEPT
                               !.pits[opposite] = 0,
                               !.pits[last_pit_index] = 0]
             IN  [new_board |->
                     IF player = PLAYER_SOUTH
                     THEN [emptied EXCEPT !.south_kalah = @ + captured]
                     ELSE [emptied EXCEPT !.north_kalah = @ + captured],
                  move_type |-> MOVE_CAPTURE,
                  next_player |-> 1 - player]
        ELSE [new_board |-> sown, move_type |-> MOVE_NORMAL,
              next_player |-> 1 - player]

\* Variant of the capture: the landing pit is not tested for holding 1
Capture_any_count(sown, player, last_pit_index) ==
    LET ppr == sown.pits_per_row
    IN  IF /\ last_pit_index # NONE
           /\ is_own_pit(last_pit_index, player, ppr)
           /\ sown.pits[last_pit_index] >= 1
        THEN LET opposite == get_opposite_pit(last_pit_index, ppr)
             IN  IF sown.pits[opposite] > 0
                 THEN LET captured == sown.pits[opposite] + 1
                          emptied == [sown EXCEPT
                                        !.pits[opposite] = 0,
                                        !.pits[last_pit_index] = 0]
                      IN  [new_board |->
                              IF player = PLAYER_SOUTH
                              THEN [emptied EXCEPT !.south_kalah = @ + captured]
                              ELSE [emptied EXCEPT !.north_kalah = @ + captured],
                           move_type |-> MOVE_CAPTURE,
                           next_player |-> 1 - player]
                 ELSE [new_board |-> sown, move_type |-> MOVE_NORMAL,
                       next_player |-> 1 - player]
        ELSE [new_board |-> sown, move_type |-> MOVE_NORMAL,
              next_player |-> 1 - player]

\* Variant of the capture: the capturing player moves again
Capture_keeps_turn(sown, player, last_pit_index) ==
    LET ppr == sown.pits_per_row
    IN  IF /\ last_pit_index # NONE
           /\ is_own_pit(last_pit_index, player, ppr)
           /\ sown.pits[last_pit_index] = 1
        THEN LET opposite == get_opposite_pit(last_pit_index, ppr)
             IN  IF sown.pits[opposite] > 0
                 THEN LET captured == sown.pits[opposite] + 1
                          emptied == [sown EXCEPT
                                        !.pits[opposite] = 0,
                                        !.pits[last_pit_index] = 0]
                      IN  [new_board |->
                              IF player = PLAYER_SOUTH
                              THEN [emptied EXCEPT !.south_kalah = @ + captured]
                              ELSE [emptied EXCEPT !.north_kalah = @ + captured],
                           move_type |-> MOVE_CAPTURE,
                           next_player |-> player]
                 ELSE [new_board |-> sown, move_type |-> MOVE_NORMAL,
                       next_player |-> 1 - player]
        ELSE [new_board |-> sown, move_type |-> MOVE_NORMAL,
              next_player |-> 1 - player]

\* The capture test and its effect, after the sowing loop
Capture(sown, player, last_pit_index) ==
    LET ppr == sown.pits_per_row
    IN  IF /\ last_pit_index # NONE
           /\ is_own_pit(last_pit_index, player, ppr)
           /\ sown.pits[last_pit_index] = 1
        THEN LET opposite == get_opposite_pit(last_pit_index, ppr)
             IN  IF sown.pits[opposite] > 0
                 THEN LET captured == sown.pits[opposite] + 1
                          emptied == [sown EXCEPT
                                        !.pits[opposite] = 0,
                                        !.pits[last_pit_index] = 0]
                      IN  [new_board |->
                              IF player = PLAYER_SOUTH
                              THEN [emptied EXCEPT !.south_kalah = @ + captured]
                              ELSE [emptied EXCEPT !.north_kalah = @ + captured],
                           move_type |-> MOVE_CAPTURE,
                           next_player |-> 1 - player]
                 ELSE [new_board |-> sown, move_type |-> MOVE_NORMAL,
                       next_player |-> 1 - player]
        ELSE [new_board |-> sown, move_type |-> MOVE_NORMAL,
              next_player |-> 1 - player]

\* Variant of the test: the empty source pit is not detected
EmptySource_unchecked(counters) == FALSE

\* The test that raises ValueError("Cannot move from empty pit")
EmptySource(counters) == counters = 0

\* Rules.apply_move.  raised: the ValueError; arg: the board passed in, as the
\* call leaves it (every write goes to the copy); counters, sown,
\* last_was_kalah and last_pit_index are the locals after the sowing loop.
apply_move(b, player, pit_index) ==
    LET copied == Copy(b)
        ppr == copied.pits_per_row
        actual_pit == IF player = PLAYER_SOUTH THEN pit_index
                      ELSE ppr + pit_index
        opponent == IF player = PLAYER_SOUTH THEN PLAYER_NORTH
                    ELSE PLAYER_SOUTH
        counters == copied.pits[actual_pit]
    IN  IF EmptySource(counters)
        THEN [raised |-> TRUE, arg |-> b, new_board |-> NONE,
              move_type |-> NONE, next_player |-> NONE,
              counters |-> counters, sown |-> NONE,
              last_was_kalah |-> FALSE, last_pit_index |-> NONE]
        ELSE
        LET picked == [copied EXCEPT !.pits[actual_pit] = 0]
            start == IF actual_pit < ppr THEN actual_pit ELSE actual_pit + 1
            st == Sow([new_board |-> picked, pos_index |-> start,
                       last_was_kalah |-> FALSE, last_pit_index |-> NONE],
                      player, opponent, counters)
            res == IF st.last_was_kalah
                   THEN [new_board |-> st.new_board,
                         move_type |-> MOVE_EXTRA_TURN,
                         next_player |-> player]
                   ELSE Capture(st.new_board, player, st.last_pit_index)
        IN  [raised |-> FALSE, arg |-> b, new_board |-> res.new_board,
             move_type |-> res.move_type, next_player |-> res.next_player,
             counters |-> counters, sown |-> st.new_board,
             last_was_kalah |-> st.last_was_kalah,
             last_pit_index |-> st.last_pit_index]

\* Variant of is_game_over: South's row only
is_game_over_south_only(b) ==
    is_empty_row(b, PLAYER_SOUTH)

\* Rules.is_game_over
is_game_over(b) ==
    is_empty_row(b, PLAYER_SOUTH) \/ is_empty_row(b, PLAYER_NORTH)

\* Variant of the sweep of North's row: the counters go to South's store
RECURSIVE SweepNorth_to_south(_, _)
SweepNorth_to_south(fb, i) ==
    IF i = fb.pits_per_row THEN fb
    ELSE SweepNorth_to_south([fb EXCEPT
                       !.south_kalah = @ + fb.pits[fb.pits_per_row + i],
                       !.pits[fb.pits_per_row + i] = 0], i + 1)

\* The sweep loops of Rules.finalize_game: for i in range(pits_per_row)
RECURSIVE SweepNorth(_, _)
SweepNorth(fb, i) ==
    IF i = fb.pits_per_row THEN fb
    ELSE SweepNorth([fb EXCEPT
                       !.north_kalah = @ + fb.pits[fb.pits_per_row + i],
                       !.pits[fb.pits_per_row + i] = 0], i + 1)

RECURSIVE SweepSouth(_, _)
SweepSouth(fb, i) ==
    IF i = fb.pits_per_row THEN fb
    ELSE SweepSouth([fb EXCEPT
                       !.south_kalah = @ + fb.pits[i],
                       !.pits[i] = 0], i + 1)

\* Variant of finalize_game: both rows are swept whether or not one is empty
finalize_game_always_sweeps(b) ==
    LET final_board == Copy(b)
    IN  SweepNorth(SweepSouth(final_board, 0), 0)

\* Rules.finalize_game
finalize_game(b) ==
    LET final_board == Copy(b)
    IN  IF is_empty_row(final_board, PLAYER_SOUTH)
        THEN SweepNorth(final_board, 0)
        ELSE IF is_empty_row(final_board, PLAYER_NORTH)
        THEN SweepSouth(final_board, 0)
        ELSE final_board

\* Variant of get_winner: the stores compared are those of the board passed
\* in, not of the finalized board
get_winner_unfinalized(b) ==
    IF ~is_game_over(b) THEN NONE
    ELSE LET south_score == b.south_kalah
             north_score == b.north_kalah
         IN  IF south_score > north_score THEN PLAYER_SOUTH
             ELSE IF north_score > south_score THEN PLAYER_NORTH
             ELSE NONE

\* Rules.get_winner
get_winner(b) ==
    IF ~is_game_over(b) THEN NONE
    ELSE LET final_board == finalize_game(b)
             south_score == final_board.south_kalah
             north_score == final_board.north_kalah
         IN  IF south_score > north_score THEN PLAYER_SOUTH
             ELSE IF north_score > south_score THEN PLAYER_NORTH
             ELSE NONE

\* ---- objects and references (board.py, rules.py, game_state.py) ----
\* A heap hp is a record of the sequences boards, lists and states.

\* the board an object reference stands for, its pits read through the list
BoardValue(hp, b) ==
    [hp.boards[b] EXCEPT !.pits = hp.lists[hp.boards[b].pits]]

\* Variant of Board.copy: new_board.pits = self.pits, the list is shared
HBoardCopy_shared_pits(hp, b) ==
    LET new_board == [hp.boards[b] EXCEPT !.counters_per_pit = 0]
    IN  [hp |-> [hp EXCEPT !.boards = Append(@, new_board)],
         ref |-> Len(hp.boards) + 1]

\* Board.copy on objects: a new Board whose pits is a new list,
\* self.pits.copy(); ref is the new board
HBoardCopy(hp, b) ==
    LET new_list == Len(hp.lists) + 1
        new_board == [hp.boards[b] EXCEPT !.counters_per_pit = 0,
                                          !.pits = new_list]
    IN  [hp |-> [hp EXCEPT !.lists = Append(@, hp.lists[hp.boards[b].pits]),
                           !.boards = Append(@, new_board)],
         ref |-> Len(hp.boards) + 1]

\* the writes of a rules function, all of them made through new_board: the
\* list new_board.pits refers to and the two stores of new_board
HBoardWrite(hp, new_board, value) ==
    [hp EXCEPT !.lists[hp.boards[new_board].pits] = value.pits,
               !.boards[new_board].south_kalah = value.south_kalah,
               !.boards[new_board].north_kalah = value.north_kalah]

\* Rules.apply_move on objects: copy, then sow and capture on the copy; when
\* it raises nothing was written and the copy is referred to by nobody
HRulesApplyMove(hp, b, player, pit_index) ==
    LET Written(c, r) ==
            IF r.raised
            THEN [raised |-> TRUE, hp |-> hp, new_board |-> NONE, r |-> r]
            ELSE [raised |-> FALSE,
                  hp |-> HBoardWrite(c.hp, c.ref, r.new_board),
                  new_board |-> c.ref, r |-> r]
        OnCopy(c) ==
            Written(c, apply_move(BoardValue(c.hp, c.ref), player, pit_index))
    IN  OnCopy(HBoardCopy(hp, b))

\* Rules.finalize_game on objects: copy, then sweep on the copy
HFinalizeGame(hp, b) ==
    LET c == HBoardCopy(hp, b)
    IN  [hp |-> HBoardWrite(c.hp, c.ref, finalize_game(BoardValue(c.hp, c.ref))),
         final_board |-> c.ref]

\* Variant of GameState.apply_move: the entry names the player who moves
\* next instead of the player who moved
HGameStateApplyMove_next_player(hp, s, pit_index) ==
    LET self == hp.states[s]
        NewState(m) ==
            LET entry == <<m.r.next_player, pit_index, m.r.move_type>>
                new_state == [board |-> m.new_board,
                              current_player |-> m.r.next_player,
                              move_history |-> Len(m.hp.lists) + 1]
            IN  IF m.raised
                THEN [raised |-> TRUE, hp |-> m.hp, new_state |-> NONE]
                ELSE [raised |-> FALSE,
                      hp |-> [m.hp EXCEPT
                                !.lists = Append(@,
                                    Append(m.hp.lists[self.move_history], entry)),
                                !.states = Append(@, new_state)],
                      new_state |-> Len(m.hp.states) + 1]
    IN  NewState(HRulesApplyMove(hp, self.board, self.current_player,
                                 pit_index))

\* GameState.apply_move on objects: the new state refers to the board that
\* Rules.apply_move returned and to a new list, self.move_history + [entry]
HGameStateApplyMove(hp, s, pit_index) ==
    LET self == hp.states[s]
        NewState(m) ==
            LET entry == <<self.current_player, pit_index, m.r.move_type>>
                new_state == [board |-> m.new_board,
                              current_player |-> m.r.next_player,
                              move_history |-> Len(m.hp.lists) + 1]
            IN  IF m.raised
                THEN [raised |-> TRUE, hp |-> m.hp, new_state |-> NONE]
                ELSE [raised |-> FALSE,
                      hp |-> [m.hp EXCEPT
                                !.lists = Append(@,
                                    Append(m.hp.lists[self.move_history], entry)),
                                !.states = Append(@, new_state)],
                      new_state |-> Len(m.hp.states) + 1]
    IN  NewState(HRulesApplyMove(hp, self.board, self.current_player,
                                 pit_index))

\* GameState(pits_per_row, counters_per_pit): a new Board with its list of
\* pits and an empty move_history
HNewGameState(pits_per_row, counters_per_pit) ==
    [boards |-> <<[NewBoard(pits_per_row, counters_per_pit) EXCEPT !.pits = 1]>>,
     lists |-> <<NewBoard(pits_per_row, counters_per_pit).pits, <<>> >>,
     states |-> <<[board |-> 1, current_player |-> PLAYER_SOUTH,
                   move_history |-> 2]>>]

\* ---- Heuristics (heuristics.py) and MinimaxAgent (minimax_agent.py) ----
\* The evaluations are floats with halves (0.5 * position_control); the
\* model computes twice the value in integers, which keeps every comparison.

\* Heuristics._evaluate_position_control
evaluate_position_control(b, player) ==
    LET south == SumRange(b.pits, 0, b.pits_per_row - 1)
        north == SumRange(b.pits, b.pits_per_row, 2 * b.pits_per_row - 1)
    IN  IF player = PLAYER_SOUTH THEN south - north ELSE north - south

\* Variant of _evaluate_endgame: the bonus also with 10 counters in the pits
evaluate_endgame_at_ten(b, player) ==
    LET total_counters == get_total_counters(b)
        score_diff == IF player = PLAYER_SOUTH
                      THEN b.south_kalah - b.north_kalah
                      ELSE b.north_kalah - b.south_kalah
    IN  IF total_counters <= 10 THEN 50 * score_diff ELSE 0

\* Heuristics._evaluate_endgame: 50.0 * score_diff and -50.0 * abs(score_diff)
evaluate_endgame(b, player) ==
    LET total_counters == get_total_counters(b)
        score_diff == IF player = PLAYER_SOUTH
                      THEN b.south_kalah - b.north_kalah
                      ELSE b.north_kalah - b.south_kalah
    IN  IF total_counters < 10 THEN 50 * score_diff ELSE 0

\* Variant of evaluate_position: position_control with weight 1.0
evaluate_position_full_control(b, player) ==
    LET material == IF player = PLAYER_SOUTH
                    THEN b.south_kalah - b.north_kalah
                    ELSE b.north_kalah - b.south_kalah
    IN  200 * material + 2 * evaluate_position_control(b, player)
            + 2 * evaluate_endgame(b, player)

\* Heuristics.evaluate_position, doubled:
\* 100.0 * material + 0.5 * position_control + endgame_bonus
evaluate_position(b, player) ==
    LET material == IF player = PLAYER_SOUTH
                    THEN b.south_kalah - b.north_kalah
                    ELSE b.north_kalah - b.south_kalah
    IN  200 * material + evaluate_position_control(b, player)
            + 2 * evaluate_endgame(b, player)

\* Variant of _evaluate: the final difference is not turned for North
evaluate_south_only(b, original_player) ==
    IF is_game_over(b)
    THEN LET final_board == finalize_game(Copy(b))
         IN  2 * (final_board.south_kalah - final_board.north_kalah)
    ELSE evaluate_position(b, original_player)

\* Variant of _evaluate: the heuristic also for a terminal state
evaluate_heuristic_only(b, original_player) ==
    evaluate_position(b, original_player)

\* MinimaxAgent._evaluate, doubled: the final score difference of a terminal
\* state, the heuristic otherwise, both for original_player
evaluate(b, original_player) ==
    IF is_game_over(b)
    THEN LET final_board == finalize_game(Copy(b))
             diff == final_board.south_kalah - final_board.north_kalah
         IN  IF original_player = PLAYER_SOUTH THEN 2 * diff ELSE 2 * (-diff)
    ELSE evaluate_position(b, original_player)

\* float('inf') for the values of one game: above every evaluation
Infinity(b) ==
    1000 * (get_total_counters(b) + b.south_kalah + b.north_kalah + 1)

Max(x, y) == IF x >= y THEN x ELSE y
Min(x, y) == IF x <= y THEN x ELSE y

RECURSIVE minimax(_, _, _, _, _, _)
RECURSIVE MaxLoop(_, _, _, _, _, _, _, _, _)
RECURSIVE MinLoop(_, _, _, _, _, _, _, _, _)

\* the loop of a maximizing node from legal_moves[i] on, with its break
MaxLoop(b, player, depth, legal_moves, i, value, alpha, beta, original_player) ==
    IF i > Len(legal_moves) THEN value
    ELSE LET Break(v, a) ==
                 IF a >= beta THEN v
                 ELSE MaxLoop(b, player, depth, legal_moves, i + 1, v, a,
                              beta, original_player)
             Update(v) == Break(v, Max(alpha, v))
             Score(eval_score) == Update(Max(value, eval_score))
             Child(r) == Score(minimax(r.new_board, r.next_player, depth - 1,
                                       alpha, beta, original_player))
         IN  Child(apply_move(b, player, legal_moves[i]))

\* Variant of the minimizing loop: it breaks after its first move whatever
\* alpha and beta are
MinLoop_always_cut(b, player, depth, legal_moves, i, value, alpha, beta, original_player) ==
    IF i > Len(legal_moves) THEN value
    ELSE LET Score(eval_score) == Min(value, eval_score)
             Child(r) == Score(minimax(r.new_board, r.next_player, depth - 1,
                                       alpha, beta, original_player))
         IN  Child(apply_move(b, player, legal_moves[i]))

\* the loop of a minimizing node from legal_moves[i] on, with its break
MinLoop(b, player, depth, legal_moves, i, value, alpha, beta, original_player) ==
    IF i > Len(legal_moves) THEN value
    ELSE LET Break(v, bt) ==
                 IF alpha >= bt THEN v
                 ELSE MinLoop(b, player, depth, legal_moves, i + 1, v, alpha,
                              bt, original_player)
             Update(v) == Break(v, Min(beta, v))
             Score(eval_score) == Update(Min(value, eval_score))
             Child(r) == Score(minimax(r.new_board, r.next_player, depth - 1,
                                       alpha, beta, original_player))
         IN  Child(apply_move(b, player, legal_moves[i]))

\* MinimaxAgent._minimax on the state (b, player)
minimax(b, player, depth, alpha, beta, original_player) ==
    IF is_game_over(b) \/ depth = 0 THEN evaluate(b, original_player)
    ELSE LET legal_moves == get_legal_moves(b, player)
         IN  IF legal_moves = <<>> THEN evaluate(b, original_player)
             ELSE IF player = original_player
             THEN MaxLoop(b, player, depth, legal_moves, 1, -Infinity(b),
                          alpha, beta, original_player)
             ELSE MinLoop(b, player, depth, legal_moves, 1, Infinity(b),
                          alpha, beta, original_player)

RECURSIVE RootLoop(_, _, _, _, _, _, _, _)

RECURSIVE RootLoop_keeps_last(_, _, _, _, _, _, _, _)
\* Variant of the loop of select_move: value >= best_value, the last move of
\* the highest value
RootLoop_keeps_last(b, player, depth, legal_moves, i, best_move, best_value, alpha) ==
    IF i > Len(legal_moves) THEN best_move
    ELSE LET Break(bm, bv, a) ==
                 IF a >= Infinity(b) THEN bm
                 ELSE RootLoop_keeps_last(b, player, depth, legal_moves,
                                          i + 1, bm, bv, a)
             Update(bm, bv) == Break(bm, bv, Max(alpha, bv))
             Score(value) ==
                 Update(IF value >= best_value THEN legal_moves[i]
                        ELSE best_move,
                        IF value >= best_value THEN value ELSE best_value)
             Child(r) == Score(minimax(r.new_board, r.next_player, depth - 1,
                                       alpha, Infinity(b), player))
         IN  Child(apply_move(b, player, legal_moves[i]))

\* the loop of MinimaxAgent.select_move over the moves of the root, from
\* legal_moves[i] on: the first move of the highest value
RootLoop(b, player, depth, legal_moves, i, best_move, best_value, alpha) ==
    IF i > Len(legal_moves) THEN best_move
    ELSE LET Break(bm, bv, a) ==
                 IF a >= Infinity(b) THEN bm
                 ELSE RootLoop(b, player, depth, legal_moves, i + 1, bm, bv, a)
             Update(bm, bv) == Break(bm, bv, Max(alpha, bv))
             Score(value) ==
                 Update(IF value > best_value THEN legal_moves[i]
                        ELSE best_move,
                        IF value > best_value THEN value ELSE best_value)
             Child(r) == Score(minimax(r.new_board, r.next_player, depth - 1,
                                       alpha, Infinity(b), player))
         IN  Child(apply_move(b, player, legal_moves[i]))

\* Variant of select_move: without the test of legal_moves, best_move = None
minimax_select_move_unchecked(b, player, depth) ==
    LET legal_moves == get_legal_moves(b, player)
    IN  IF legal_moves = <<>>
        THEN [raised |-> FALSE, move |-> NONE, searched |-> TRUE]
        ELSE IF Len(legal_moves) = 1
        THEN [raised |-> FALSE, move |-> legal_moves[1], searched |-> FALSE]
        ELSE [raised |-> FALSE,
              move |-> RootLoop(b, player, depth, legal_moves, 1,
                                legal_moves[1], -Infinity(b), -Infinity(b)),
              searched |-> TRUE]

\* MinimaxAgent(depth).select_move(state): what it returns or that it raises,
\* and whether the search ran
minimax_select_move(b, player, depth) ==
    LET legal_moves == get_legal_moves(b, player)
    IN  IF legal_moves = <<>>
        THEN [raised |-> TRUE, move |-> NONE, searched |-> FALSE]
        ELSE IF Len(legal_moves) = 1
        THEN [raised |-> FALSE, move |-> legal_moves[1], searched |-> FALSE]
        ELSE [raised |-> FALSE,
              move |-> RootLoop(b, player, depth, legal_moves, 1,
                                legal_moves[1], -Infinity(b), -Infinity(b)),
              searched |-> TRUE]

\* RandomAgent.select_move(state): random.choice(legal_moves), or it raises
random_select_move(b, player) ==
    LET legal_moves == get_legal_moves(b, player)
    IN  IF legal_moves = <<>>
        THEN {[raised |-> TRUE, move |-> NONE, searched |-> FALSE]}
        ELSE {[raised |-> FALSE, move |-> legal_moves[i], searched |-> FALSE] :
                i \in 1..Len(legal_moves)}

\* ---- MCTSAgent (mcts_agent.py) and MCTSEnhancedAgent ----
\* A tree is a sequence of nodes; a node refers to its parent and children
\* by their index, 0 for no parent.  wins2 is twice wins (results are 0, 0.5
\* and 1.0).

\* MCTSNode.__init__
MCTSNode(b, player, parent, move) ==
    [board |-> b, player |-> player, parent |-> parent, move |-> move,
     children |-> <<>>, visits |-> 0, wins2 |-> 0,
     untried_moves |-> get_legal_moves(b, player)]

\* Variant of expand: the first untried move, untried_moves.pop(0)
expand_first(t, n) ==
    IF t[n].untried_moves = <<>> THEN [tree |-> t, node |-> n]
    ELSE LET move == t[n].untried_moves[1]
             Child(r) == MCTSNode(r.new_board, r.next_player, n, move)
         IN  [tree |-> Append([t EXCEPT
                                 ![n].untried_moves = Tail(@),
                                 ![n].children = Append(@, Len(t) + 1)],
                              Child(apply_move(t[n].board, t[n].player,
                                               move))),
              node |-> Len(t) + 1]

\* MCTSNode.expand: untried_moves.pop() takes the last untried move; the
\* child is added to children, a dict that keeps the order of insertion
expand(t, n) ==
    IF t[n].untried_moves = <<>> THEN [tree |-> t, node |-> n]
    ELSE LET k == Len(t[n].untried_moves)
             move == t[n].untried_moves[k]
             Child(r) == MCTSNode(r.new_board, r.next_player, n, move)
         IN  [tree |-> Append([t EXCEPT
                                 ![n].untried_moves = SubSeq(@, 1, k - 1),
                                 ![n].children = Append(@, Len(t) + 1)],
                              Child(apply_move(t[n].board, t[n].player,
                                               move))),
              node |-> Len(t) + 1]

\* math.log(n) in units of 1/10000, rounded down, for n = 1, 2, ...
LnTable ==
    <<0, 6931, 10986, 13862, 16094, 17917, 19459, 20794, 21972, 23025,
       23978, 24849, 25649, 26390, 27080, 27725, 28332, 28903, 29444, 29957,
       30445, 30910, 31354, 31780, 32188, 32580, 32958, 33322, 33672, 34011,
       34339, 34657, 34965, 35263, 35553, 35835, 36109, 36375, 36635, 36888,
       37135, 37376, 37612, 37841, 38066, 38286, 38501, 38712, 38918, 39120,
       39318, 39512, 39702, 39889, 40073, 40253, 40430, 40604, 40775, 40943,
       41108, 41271, 41431, 41588, 41743, 41896, 42046, 42195, 42341, 42484,
       42626, 42766, 42904, 43040, 43174, 43307, 43438, 43567, 43694, 43820,
       43944, 44067, 44188, 44308, 44426, 44543, 44659, 44773, 44886, 44998,
       45108, 45217, 45325, 45432, 45538, 45643, 45747, 45849, 45951, 46051,
       46151, 46249, 46347, 46443, 46539, 46634, 46728, 46821, 46913, 47004,
       47095, 47184, 47273, 47361, 47449, 47535, 47621, 47706, 47791, 47874>>

RECURSIVE SqrtSearch(_, _, _)
\* the root of x rounded down, between lo and hi
SqrtSearch(x, lo, hi) ==
    IF hi - lo <= 1 THEN lo
    ELSE LET mid == (lo + hi) \div 2
         IN  IF mid * mid <= x THEN SqrtSearch(x, mid, hi)
             ELSE SqrtSearch(x, lo, mid)

\* the UCB1 score of child c under a parent of the given visits, in units
\* of 1/10000 and within three units of the float: wins / visits +
\* sqrt(2) * sqrt(log(parent visits) / visits)
Ucb(t, parent_visits, c) ==
    (t[c].wins2 * 10000) \div (2 * t[c].visits)
        + SqrtSearch((2 * LnTable[parent_visits] * 10000) \div t[c].visits,
                     0, 46341)

\* the children of n in the order of insertion
Children(t, n) == t[n].children

\* child i may end the loop of select_child as best_child although child j
\* is there: with equal statistics the earlier one stays, otherwise the
\* scores decide, either way when they are closer than the model resolves
MayBeat(t, n, i, j) ==
    LET ci == Children(t, n)[i]
        cj == Children(t, n)[j]
    IN  IF t[ci].visits = t[cj].visits /\ t[ci].wins2 = t[cj].wins2
        THEN i < j
        ELSE Ucb(t, t[n].visits, ci) + UcbTolerance
                 >= Ucb(t, t[n].visits, cj)

\* MCTSNode.select_child: the children it can return.  A child never
\* visited has score inf, the first such child is returned.  The enhanced
\* node mixes a running average of floats into the score: any child.
select_child(t, n, kind) ==
    LET cs == Children(t, n)
        unvisited == {i \in 1..Len(cs) : t[cs[i]].visits = 0}
    IN  IF unvisited # {}
        THEN {cs[CHOOSE i \in unvisited : \A j \in unvisited : i <= j]}
        ELSE IF kind = "enhanced" THEN {cs[i] : i \in 1..Len(cs)}
        ELSE {cs[i] : i \in {i \in 1..Len(cs) :
                 \A j \in 1..Len(cs) : j # i => MayBeat(t, n, i, j)}}

RECURSIVE select(_, _, _)
\* _select: the nodes at which the descent from n can stop, a terminal node
\* or a node that has untried moves
select(t, n, kind) ==
    IF is_game_over(t[n].board) THEN {n}
    ELSE IF t[n].untried_moves # <<>> THEN {n}
    ELSE UNION {select(t, c, kind) : c \in select_child(t, n, kind)}

\* Variant of the result of a playout: the finalized stores are compared
\* although the game is not over
Outcome_by_stores(b, original_player) ==
    LET final_board == finalize_game(b)
        winner == IF final_board.south_kalah > final_board.north_kalah
                  THEN PLAYER_SOUTH
                  ELSE IF final_board.north_kalah > final_board.south_kalah
                  THEN PLAYER_NORTH
                  ELSE NONE
    IN  IF winner = original_player THEN 2
        ELSE IF winner = 1 - original_player THEN 0
        ELSE 1

\* the result of a playout that ended on board b, doubled
Outcome(b, original_player) ==
    LET winner == get_winner(finalize_game(b))
    IN  IF winner = original_player THEN 2
        ELSE IF winner = 1 - original_player THEN 0
        ELSE 1

RECURSIVE simulate(_, _, _, _)
\* _simulate: the results random playouts from (b, player) can have
simulate(b, player, original_player, moves_played) ==
    IF is_game_over(b) \/ moves_played >= ROLLOUT_LIMIT
           \/ get_legal_moves(b, player) = <<>>
    THEN {Outcome(b, original_player)}
    ELSE LET Playout(r) == simulate(r.new_board, r.next_player,
                                     original_player, moves_played + 1)
         IN  UNION {Playout(apply_move(b, player,
                                       get_legal_moves(b, player)[i])) :
                      i \in 1..Len(get_legal_moves(b, player))}

RECURSIVE backpropagate_by_mover(_, _, _)
\* Variant of backpropagate: the result is inverted only when the parent
\* has another player to move than the node
backpropagate_by_mover(t, n, result2) ==
    LET updated == [t EXCEPT ![n].visits = @ + 1, ![n].wins2 = @ + result2]
    IN  IF t[n].parent = 0 THEN updated
        ELSE backpropagate_by_mover(updated, t[n].parent,
                 IF t[t[n].parent].player = t[n].player THEN result2
                 ELSE 2 - result2)

RECURSIVE backpropagate(_, _, _)
\* MCTSNode.backpropagate: update, then the parent with 1.0 - result
backpropagate(t, n, result2) ==
    LET updated == [t EXCEPT ![n].visits = @ + 1, ![n].wins2 = @ + result2]
    IN  IF t[n].parent = 0 THEN updated
        ELSE backpropagate(updated, t[n].parent, 2 - result2)

\* Variant of the expansion: the playout starts from the node _select
\* returned, not from the node of the second expansion
Expansion_first_node(t, stop) ==
    LET Again(first) ==
            IF is_game_over(first.tree[first.node].board) THEN first
            ELSE [tree |-> expand(first.tree, first.node).tree,
                  node |-> first.node]
    IN  Again(IF is_game_over(t[stop].board)
              THEN [tree |-> t, node |-> stop]
              ELSE expand(t, stop))

\* the node the playout starts from: the node _select returned (a new child
\* of stop, or stop when it is terminal), expanded once more unless terminal
Expansion(t, stop) ==
    LET Again(first) ==
            IF is_game_over(first.tree[first.node].board) THEN first
            ELSE expand(first.tree, first.node)
    IN  Again(IF is_game_over(t[stop].board)
              THEN [tree |-> t, node |-> stop]
              ELSE expand(t, stop))

\* one iteration of select_move: the trees it can leave.  MCTSAgent plays
\* out for the player to move at the node, the enhanced agent for the
\* player of the root.
Iterate(t, kind) ==
    LET Playouts(e) ==
            LET node == e.tree[e.node]
                original_player == IF kind = "enhanced" THEN t[1].player
                                   ELSE node.player
            IN  {backpropagate(e.tree, e.node, result2) :
                   result2 \in simulate(node.board, node.player,
                                         original_player, 0)}
    IN  UNION {Playouts(Expansion(t, stop)) : stop \in select(t, 1, kind)}

RECURSIVE rollout(_, _, _)
\* the loop of _simulate: the boards on which the random playouts from
\* (b, player) can end
rollout(b, player, moves_played) ==
    IF is_game_over(b) \/ moves_played >= ROLLOUT_LIMIT
           \/ get_legal_moves(b, player) = <<>>
    THEN {b}
    ELSE LET Playout(r) == rollout(r.new_board, r.next_player,
                                   moves_played + 1)
         IN  UNION {Playout(apply_move(b, player,
                                       get_legal_moves(b, player)[i])) :
                      i \in 1..Len(get_legal_moves(b, player))}

\* the player a playout from node is scored for: node.state.current_player
\* in MCTSAgent.select_move, the player to move at the root in
\* MCTSEnhancedAgent.select_move
original_player_of(t, node, kind) ==
    IF kind = "enhanced" THEN t[1].player ELSE node.player

\* one iteration of select_move in which the selection stopped at stop and
\* the playout ended on the board final: the tree it leaves
IterateOn(t, kind, stop, final) ==
    LET Backed(e) ==
            backpropagate(e.tree, e.node,
                Outcome(final, original_player_of(t, e.tree[e.node], kind)))
    IN  Backed(Expansion(t, stop))

RECURSIVE MostVisited_last(_, _, _, _)
\* Variant of the loop over root.children: child.visits >= best_visits,
\* the last child of the most visits
MostVisited_last(t, i, best_move, best_visits) ==
    IF i > Len(Children(t, 1)) THEN best_move
    ELSE LET child == t[Children(t, 1)[i]]
         IN  IF child.visits >= best_visits
             THEN MostVisited_last(t, i + 1, child.move, child.visits)
             ELSE MostVisited_last(t, i + 1, best_move, best_visits)

RECURSIVE MostVisited(_, _, _, _)
\* the loop over root.children: the first child of the most visits
MostVisited(t, i, best_move, best_visits) ==
    IF i > Len(Children(t, 1)) THEN best_move
    ELSE LET child == t[Children(t, 1)[i]]
         IN  IF child.visits > best_visits
             THEN MostVisited(t, i + 1, child.move, child.visits)
             ELSE MostVisited(t, i + 1, best_move, best_visits)

\* Variant of the end of select_move: return best_move
BestMove_no_default(t) ==
    MostVisited(t, 1, NONE, -1)

\* the end of select_move: best_move, or legal_moves[0] when it is None
BestMove(t) ==
    LET best_move == MostVisited(t, 1, NONE, -1)
    IN  IF best_move # NONE THEN best_move
        ELSE get_legal_moves(t[1].board, t[1].player)[1]

\* ---- MCTSEnhancedNode (mcts_enhanced_agent.py) with its heuristic values ----
\* A heuristic value is a float; the model holds the rational number the
\* float stands for, as [num, den] in lowest terms with den > 0.

RECURSIVE Gcd(_, _)
Gcd(a, b) == IF b = 0 THEN a ELSE Gcd(b, a % b)

\* the rational num / den, den > 0
Ratio(num, den) ==
    LET g == Gcd(num, den)
    IN  [num |-> num \div g, den |-> den \div g]

\* x + y, x * k and x / k for rationals x, y and an integer k (k > 0 in x / k)
RatioAdd(x, y) == Ratio(x.num * y.den + y.num * x.den, x.den * y.den)

RatioTimes(x, k) == Ratio(x.num * k, x.den)

RatioOver(x, k) == Ratio(x.num, x.den * k)

\* 1.0 - x
OneMinus(x) == Ratio(x.den - x.num, x.den)

\* max(0.0, min(1.0, normalized))
Clamp(normalized) ==
    IF normalized.num < 0 THEN Ratio(0, 1)
    ELSE IF normalized.num > normalized.den THEN Ratio(1, 1)
    ELSE normalized

\* Variant of _evaluate_heuristic: (score + 200) / 400 without the clamp
evaluate_heuristic_unclamped(b, original_player) ==
    IF is_game_over(b)
    THEN LET winner == get_winner(finalize_game(Copy(b)))
         IN  IF winner = original_player THEN Ratio(1, 1)
             ELSE IF winner = 1 - original_player THEN Ratio(0, 1)
             ELSE Ratio(1, 2)
    ELSE Ratio(evaluate_position(b, original_player) + 400, 800)

\* MCTSEnhancedNode._evaluate_heuristic: 1.0, 0.0 or 0.5 by the winner of a
\* terminal state, else (score + 200) / 400 clamped to [0, 1]; score is
\* half of evaluate_position of the model
evaluate_heuristic(b, original_player) ==
    IF is_game_over(b)
    THEN LET winner == get_winner(finalize_game(Copy(b)))
         IN  IF winner = original_player THEN Ratio(1, 1)
             ELSE IF winner = 1 - original_player THEN Ratio(0, 1)
             ELSE Ratio(1, 2)
    ELSE Clamp(Ratio(evaluate_position(b, original_player) + 400, 800))

\* MCTSEnhancedNode.__init__: heuristic_value = 0.0.  samples is no field of
\* the program: the heuristic results update has received, in their order
MCTSEnhancedNode(b, player, parent, move) ==
    [board |-> b, player |-> player, parent |-> parent, move |-> move,
     children |-> <<>>, visits |-> 0, wins2 |-> 0,
     heuristic_value |-> Ratio(0, 1), samples |-> <<>>,
     untried_moves |-> get_legal_moves(b, player)]

\* MCTSEnhancedNode.expand: as MCTSNode.expand, and the child gets its
\* heuristic value for original_player at once
enhanced_expand(t, n, original_player) ==
    IF t[n].untried_moves = <<>> THEN [tree |-> t, node |-> n]
    ELSE LET k == Len(t[n].untried_moves)
             move == t[n].untried_moves[k]
             Child(r) ==
                 [MCTSEnhancedNode(r.new_board, r.next_player, n, move)
                    EXCEPT !.heuristic_value =
                               evaluate_heuristic(r.new_board,
                                                  original_player)]
         IN  [tree |-> Append([t EXCEPT
                                 ![n].untried_moves = SubSeq(@, 1, k - 1),
                                 ![n].children = Append(@, Len(t) + 1)],
                              Child(apply_move(t[n].board, t[n].player,
                                               move))),
              node |-> Len(t) + 1]

\* Variant of update: the running average counts the value the node holds
\* before its first visit as a sample
enhanced_update_from_stored(node, simulation_result2, heuristic_result) ==
    [node EXCEPT
        !.visits = @ + 1,
        !.wins2 = @ + simulation_result2,
        !.heuristic_value =
            RatioOver(RatioAdd(RatioTimes(@, node.visits + 1),
                               heuristic_result),
                      node.visits + 2),
        !.samples = Append(@, heuristic_result)]

\* MCTSEnhancedNode.update: visits and wins as in MCTSNode.update; the
\* heuristic value is the sample at the first visit and then
\* (heuristic_value * (visits - 1) + heuristic_result) / visits
enhanced_update(node, simulation_result2, heuristic_result) ==
    [node EXCEPT
        !.visits = @ + 1,
        !.wins2 = @ + simulation_result2,
        !.heuristic_value =
            IF node.visits + 1 = 1 THEN heuristic_result
            ELSE RatioOver(RatioAdd(RatioTimes(@, node.visits),
                                    heuristic_result),
                           node.visits + 1),
        !.samples = Append(@, heuristic_result)]

RECURSIVE enhanced_backpropagate(_, _, _, _)
\* MCTSEnhancedNode.backpropagate: update, then the parent with
\* 1.0 - simulation_result and 1.0 - heuristic_result
enhanced_backpropagate(t, n, simulation_result2, heuristic_result) ==
    LET updated == [t EXCEPT ![n] = enhanced_update(@, simulation_result2,
                                                    heuristic_result)]
    IN  IF t[n].parent = 0 THEN updated
        ELSE enhanced_backpropagate(updated, t[n].parent,
                                    2 - simulation_result2,
                                    OneMinus(heuristic_result))

\* the node the playout of the enhanced agent starts from: as Expansion
EnhancedExpansion(t, stop, original_player) ==
    LET Again(first) ==
            IF is_game_over(first.tree[first.node].board) THEN first
            ELSE enhanced_expand(first.tree, first.node, original_player)
    IN  Again(IF is_game_over(t[stop].board)
              THEN [tree |-> t, node |-> stop]
              ELSE enhanced_expand(t, stop, original_player))

\* one iteration of MCTSEnhancedAgent.select_move: the trees it can leave.
\* The playout and the heuristic result are for the player of the root.
EnhancedIterate(t) ==
    LET Playouts(e) ==
            {enhanced_backpropagate(e.tree, e.node, simulation_result2,
                 evaluate_heuristic(e.tree[e.node].board, t[1].player)) :
               simulation_result2 \in
                   simulate(e.tree[e.node].board, e.tree[e.node].player,
                            t[1].player, 0)}
    IN  UNION {Playouts(EnhancedExpansion(t, stop, t[1].player)) :
                 stop \in select(t, 1, "enhanced")}

\* ---- the state machine ----

\* no object has been created
HeapIdle == boards = <<>> /\ lists = <<>> /\ states = <<>>

\* play_game before it has a result
NoResult ==
    [winner |-> NONE, south_score |-> 0, north_score |-> 0, moves |-> 0,
     move_history |-> <<>>]

\* no play_game is running
PlayIdle ==
    /\ pc = "idle"
    /\ agents = "none"
    /\ move_history = <<>>
    /\ result = NoResult

\* no select_move is running
SearchIdle ==
    /\ agent = [kind |-> "none", param |-> 0]
    /\ search_pc = "idle"
    /\ tree = <<>>
    /\ iteration = 0

\* no batch was started
BatchIdle ==
    /\ is_running = FALSE
    /\ workers = <<>>

\* what a call on the rules leaves alone
RulesFrame == UNCHANGED <<heap_vars, play_vars, search_vars, batch_vars>>

\* GameState.__init__ on a fresh board (the first statement of play_game);
\* cfg holds the engine's pits_per_row and counters_per_pit.
Init ==
    /\ cfg \in [pits_per_row : 1..MaxPits, counters_per_pit : 1..MaxCounters]
    /\ cfg.pits_per_row * cfg.counters_per_pit <= MaxRowCounters
    /\ max_moves = MaxMoves
    /\ board = NewBoard(cfg.pits_per_row, cfg.counters_per_pit)
    /\ current_player = PLAYER_SOUTH
    /\ move_count = 0
    /\ last = [op |-> "init"]
    /\ HeapIdle
    /\ PlayIdle
    /\ SearchIdle
    /\ BatchIdle

\* The same with the default configuration of GameEngine.__init__
InitDefault ==
    /\ cfg = [pits_per_row |-> DEFAULT_PITS_PER_ROW,
              counters_per_pit |-> DEFAULT_COUNTERS_PER_PIT]
    /\ max_moves = MaxDefaultMoves
    /\ board = NewBoard(cfg.pits_per_row, cfg.counters_per_pit)
    /\ current_player = PLAYER_SOUTH
    /\ move_count = 0
    /\ last = [op |-> "init"]
    /\ HeapIdle
    /\ PlayIdle
    /\ SearchIdle
    /\ BatchIdle

\* Any board and either player to move: GameState(board, current_player) on
\* a board built as Board.copy builds one, Board(P, 0) and then the pits and
\* the stores assigned.
InitBoards ==
    /\ cfg \in [pits_per_row : 1..MaxBoardPits, counters_per_pit : {0}]
    /\ max_moves = MaxBoardMoves
    /\ \E pits \in [0..(2 * cfg.pits_per_row - 1) -> 0..MaxBoardCounters],
          south_kalah \in 0..MaxStoreFill, north_kalah \in 0..MaxStoreFill :
          /\ SumRange(pits, 0, 2 * cfg.pits_per_row - 1) <= MaxBoardCounters
          /\ board = [NewBoard(cfg.pits_per_row, 0) EXCEPT
                         !.pits = pits,
                         !.south_kalah = south_kalah,
                         !.north_kalah = north_kalah]
    /\ current_player \in {PLAYER_SOUTH, PLAYER_NORTH}
    /\ move_count = 0
    /\ last = [op |-> "init"]
    /\ HeapIdle
    /\ PlayIdle
    /\ SearchIdle
    /\ BatchIdle

\* GameState.apply_move(pit_index) by a driver that counts its moves.  The
\* ValueError propagates: the caller keeps the state it had.
Move(pit_index) ==
    /\ move_count < max_moves
    /\ LET r == apply_move(board, current_player, pit_index)
       IN  /\ last' = [op |-> "apply_move", board |-> board,
                       player |-> current_player, pit_index |-> pit_index,
                       r |-> r]
           /\ IF r.raised
              THEN UNCHANGED <<board, current_player, move_count>>
              ELSE /\ board' = r.new_board
                   /\ current_player' = r.next_player
                   /\ move_count' = move_count + 1
    /\ UNCHANGED <<cfg, max_moves>>
    /\ RulesFrame

\* GameState.get_legal_moves()
GetLegalMoves ==
    /\ last' = [op |-> "get_legal_moves", board |-> board,
                player |-> current_player,
                r |-> get_legal_moves(board, current_player)]
    /\ UNCHANGED <<cfg, max_moves, board, current_player, move_count>>
    /\ RulesFrame

\* GameState.is_terminal()
IsTerminal ==
    /\ last' = [op |-> "is_game_over", board |-> board,
                player |-> current_player, r |-> is_game_over(board)]
    /\ UNCHANGED <<cfg, max_moves, board, current_player, move_count>>
    /\ RulesFrame

\* Rules.finalize_game(state.board): the result is a new board
FinalizeGame ==
    /\ last' = [op |-> "finalize_game", board |-> board,
                player |-> current_player, r |-> finalize_game(board)]
    /\ UNCHANGED <<cfg, max_moves, board, current_player, move_count>>
    /\ RulesFrame

\* GameState.get_winner()
GetWinner ==
    /\ last' = [op |-> "get_winner", board |-> board,
                player |-> current_player, r |-> get_winner(board)]
    /\ UNCHANGED <<cfg, max_moves, board, current_player, move_count>>
    /\ RulesFrame

Next ==
    \/ \E pit_index \in 0..(board.pits_per_row - 1) : Move(pit_index)
    \/ GetLegalMoves
    \/ IsTerminal
    \/ FinalizeGame
    \/ GetWinner

Spec == Init /\ [][Next]_vars

SpecDefault == InitDefault /\ [][Next]_vars

SpecBoards == InitBoards /\ [][Next]_vars

\* the rules variables when no call on them is followed
RulesIdle ==
    /\ max_moves = 0
    /\ board = NewBoard(cfg.pits_per_row, cfg.counters_per_pit)
    /\ current_player = PLAYER_SOUTH
    /\ move_count = 0
    /\ last = [op |-> "init"]

HeapFrame == UNCHANGED <<rules_vars, play_vars, search_vars, batch_vars>>

\* the objects as one heap
Heap == [boards |-> boards, lists |-> lists, states |-> states]

\* A search tree or a driver holds the fresh state of a game
InitHeap ==
    /\ cfg \in [pits_per_row : 1..MaxHeapPits,
                 counters_per_pit : 1..MaxHeapCounters]
    /\ RulesIdle
    /\ PlayIdle
    /\ SearchIdle
    /\ BatchIdle
    /\ LET hp == HNewGameState(cfg.pits_per_row, cfg.counters_per_pit)
       IN  boards = hp.boards /\ lists = hp.lists /\ states = hp.states

\* state.apply_move(pit_index) on any state that is alive: the new state is
\* kept next to the old ones, as the nodes of a search tree keep theirs
HeapApplyMove(s, pit_index) ==
    /\ Len(states) < MaxStates
    /\ LET Kept(m) == /\ boards' = m.hp.boards
                       /\ lists' = m.hp.lists
                       /\ states' = m.hp.states
       IN  Kept(HGameStateApplyMove(Heap, s, pit_index))
    /\ HeapFrame

\* Rules.finalize_game(state.board) on any state that is alive
HeapFinalize(s) ==
    /\ Len(boards) - Len(states) < MaxFinalized
    /\ LET f == HFinalizeGame(Heap, states[s].board)
       IN  /\ boards' = f.hp.boards
           /\ lists' = f.hp.lists
           /\ states' = f.hp.states
    /\ HeapFrame

NextHeap ==
    \/ \E s \in 1..Len(states), pit_index \in 0..(cfg.pits_per_row - 1) :
          HeapApplyMove(s, pit_index)
    \/ \E s \in 1..Len(states) : HeapFinalize(s)

SpecHeap == InitHeap /\ [][NextHeap]_vars

\* ---- GameEngine.play_game (game_engine.py) ----

\* what select_move of an agent hands back to the engine: an integer, which
\* may lie outside the row or name an empty pit, or an exception
AgentOutputs(b) ==
    [raised : {FALSE}, move : (-1)..b.pits_per_row]
        \cup {[raised |-> TRUE, move |-> NONE]}

\* the counters a move adds to the two stores
StoreGain(b, player, m) ==
    LET n == apply_move(b, player, m).new_board
    IN  (n.south_kalah + n.north_kalah) - (b.south_kalah + b.north_kalah)

\* m1 is preferred to m2 by the patient agent: a move that does not end the
\* game first, then the smaller gain of the stores, then the higher index
PatientPrefers(b, player, m1, m2) ==
    LET t1 == is_game_over(apply_move(b, player, m1).new_board)
        t2 == is_game_over(apply_move(b, player, m2).new_board)
        g1 == StoreGain(b, player, m1)
        g2 == StoreGain(b, player, m2)
    IN  \/ ~t1 /\ t2
        \/ t1 = t2 /\ g1 < g2
        \/ t1 = t2 /\ g1 = g2 /\ m1 >= m2

\* an agent written against the agent contract that plays for a long game
PatientMove(b, player) ==
    LET legal == {get_legal_moves(b, player)[i] :
                    i \in 1..Len(get_legal_moves(b, player))}
    IN  CHOOSE m \in legal : \A m2 \in legal : PatientPrefers(b, player, m, m2)

\* current_agent.select_move(state) for the agents of this game
SelectMove(b, player) ==
    IF agents = "patient"
    THEN {[raised |-> FALSE, move |-> PatientMove(b, player)]}
    ELSE AgentOutputs(b)

\* Variant of the fallback: legal_moves[-1], the last legal move
EngineMove_last_legal(legal_moves, out) ==
    IF out.raised THEN legal_moves[Len(legal_moves)]
    ELSE IF \E i \in 1..Len(legal_moves) : legal_moves[i] = out.move
    THEN out.move
    ELSE legal_moves[Len(legal_moves)]

\* the move the engine applies: the agent's when it is in legal_moves, else
\* legal_moves[0]
EngineMove(legal_moves, out) ==
    IF out.raised THEN legal_moves[1]
    ELSE IF \E i \in 1..Len(legal_moves) : legal_moves[i] = out.move
    THEN out.move
    ELSE legal_moves[1]

\* Variant of the loop condition: while not state.is_terminal()
LoopCondition_no_cap == ~is_game_over(board)

\* the condition of the while loop
LoopCondition == ~is_game_over(board) /\ move_count < max_moves

\* play_game starts: a fresh GameState, move_count = 0, max_moves = 500
InitPlay ==
    /\ \/ /\ cfg \in [pits_per_row : 1..MaxPlayPits,
                        counters_per_pit : 1..MaxPlayRow]
          /\ cfg.pits_per_row * cfg.counters_per_pit <= MaxPlayRow
          /\ agents = "any"
       \/ /\ cfg = [pits_per_row |-> MAX_PITS_PER_ROW,
                    counters_per_pit |-> MAX_COUNTERS_PER_PIT]
          /\ agents = "patient"
    /\ max_moves = SAFETY_LIMIT
    /\ board = NewBoard(cfg.pits_per_row, cfg.counters_per_pit)
    /\ current_player = PLAYER_SOUTH
    /\ move_count = 0
    /\ last = [op |-> "init"]
    /\ pc = "loop"
    /\ move_history = <<>>
    /\ result = NoResult
    /\ HeapIdle
    /\ SearchIdle
    /\ BatchIdle

PlayFrame == UNCHANGED <<heap_vars, search_vars, batch_vars>>

\* one iteration of the loop: the agent is asked, its answer is replaced by
\* legal_moves[0] when it is no legal move or an exception, the move is applied
PlayStep ==
    /\ pc = "loop"
    /\ LoopCondition
    /\ get_legal_moves(board, current_player) # <<>>
    /\ \E out \in SelectMove(board, current_player) :
         LET legal_moves == get_legal_moves(board, current_player)
             move == EngineMove(legal_moves, out)
             r == apply_move(board, current_player, move)
         IN  /\ last' = [op |-> "play_step", board |-> board,
                         player |-> current_player,
                         legal_moves |-> legal_moves, out |-> out,
                         move |-> move, r |-> r]
             /\ pc' = IF r.raised THEN "raised" ELSE "loop"
             /\ board' = IF r.raised THEN board ELSE r.new_board
             /\ current_player' =
                    IF r.raised THEN current_player ELSE r.next_player
             /\ move_count' = IF r.raised THEN move_count ELSE move_count + 1
             /\ move_history' =
                    IF r.raised THEN move_history
                    ELSE Append(move_history,
                                <<current_player, move, r.move_type>>)
    /\ UNCHANGED <<cfg, max_moves, agents, result>>
    /\ PlayFrame

\* after the loop: finalize, compute the winner, build the result
PlayFinish ==
    /\ pc = "loop"
    /\ ~LoopCondition \/ get_legal_moves(board, current_player) = <<>>
    /\ LET final_board == finalize_game(board)
           winner == get_winner(final_board)
       IN  /\ result' = [winner |-> winner,
                         south_score |-> final_board.south_kalah,
                         north_score |-> final_board.north_kalah,
                         moves |-> move_count,
                         move_history |-> move_history]
           /\ last' = [op |-> "play_finish", board |-> board,
                       final_board |-> final_board]
    /\ pc' = "done"
    /\ UNCHANGED <<cfg, max_moves, board, current_player, move_count, agents,
                   move_history>>
    /\ PlayFrame

NextPlay == PlayStep \/ PlayFinish

SpecPlay == InitPlay /\ [][NextPlay]_vars

\* ---- the agents (random_agent.py, minimax_agent.py, mcts_agent.py) ----

\* a board of P pits a row with at most total counters in its pits and at
\* most store counters in each store, built as Board.copy builds one
BoardsUpTo(P, total, store) ==
    {[NewBoard(P, 0) EXCEPT !.pits = pits, !.south_kalah = south_kalah,
                            !.north_kalah = north_kalah] :
        pits \in {f \in [0..(2 * P - 1) -> 0..total] :
                    SumRange(f, 0, 2 * P - 1) <= total},
        south_kalah \in 0..store, north_kalah \in 0..store}

\* agent.select_move(state) is about to be called
Called ==
    /\ max_moves = 0
    /\ move_count = 0
    /\ last = [op |-> "init"]
    /\ search_pc = "call"
    /\ tree = <<>>
    /\ iteration = 0
    /\ HeapIdle
    /\ PlayIdle
    /\ BatchIdle

\* MinimaxAgent(depth).select_move(state) on any state, terminal ones
\* included, with the depths the configuration panel offers, 1 upwards
InitMinimax ==
    /\ cfg \in [pits_per_row : 1..MaxAgentPits, counters_per_pit : {0}]
    /\ board \in BoardsUpTo(cfg.pits_per_row, MaxAgentTotal, 0)
    /\ current_player \in {PLAYER_SOUTH, PLAYER_NORTH}
    /\ agent \in [kind : {"minimax"}, param : MIN_MINIMAX_DEPTH..MaxDepth]
    /\ Called

\* _minimax(state, depth, ...) on any state with any depth the search
\* reaches, 0 included
InitMinimaxNode ==
    /\ cfg \in [pits_per_row : 1..MaxNodePits, counters_per_pit : {0}]
    /\ board \in BoardsUpTo(cfg.pits_per_row, MaxNodeTotal, MaxAgentStore)
    /\ current_player \in {PLAYER_SOUTH, PLAYER_NORTH}
    /\ agent \in [kind : {"minimax"}, param : 0..MaxNodeDepth]
    /\ Called

\* the agents that are asked for a move
AgentConfigs ==
    [kind : {"random"}, param : {0}]
        \cup [kind : {"minimax"}, param : 0..MaxSearchDepth]
        \cup [kind : {"mcts", "enhanced"}, param : 0..MaxIterations]

\* select_move(state) of an agent of any kind on any state
InitAgents ==
    /\ cfg \in [pits_per_row : 1..MaxSearchPits, counters_per_pit : {0}]
    /\ board \in BoardsUpTo(cfg.pits_per_row, MaxSearchTotal, MaxSearchStore)
    /\ current_player \in {PLAYER_SOUTH, PLAYER_NORTH}
    /\ agent \in AgentConfigs
    /\ Called

\* move m of (b, player) ends the game and player has won it
WinsAtOnce(b, player, m) ==
    LET r == apply_move(b, player, m)
    IN  /\ is_game_over(r.new_board)
        /\ get_winner(finalize_game(r.new_board)) = player

\* a near-terminal position: two legal moves or more, exactly one of which
\* wins the game for the mover immediately
OneMoveToWin(b, player) ==
    LET legal_moves == get_legal_moves(b, player)
    IN  /\ ~is_game_over(b)
        /\ Len(legal_moves) >= 2
        /\ Cardinality({i \in 1..Len(legal_moves) :
                           WinsAtOnce(b, player, legal_moves[i])}) = 1

\* MCTSAgent(iterations=100).select_move(state) on a near-terminal position
InitConvergence ==
    /\ cfg = [pits_per_row |-> MaxTrialPits, counters_per_pit |-> 0]
    /\ board \in BoardsUpTo(cfg.pits_per_row, MaxTrialTotal, 0)
    /\ current_player \in {PLAYER_SOUTH, PLAYER_NORTH}
    /\ OneMoveToWin(board, current_player)
    /\ agent = [kind |-> "mcts", param |-> MIN_MCTS_ITERATIONS]
    /\ Called

SearchFrame ==
    /\ UNCHANGED <<cfg, max_moves, board, current_player, move_count>>
    /\ UNCHANGED <<heap_vars, play_vars, batch_vars>>

\* select_move has come to its end with r
Return(r) ==
    /\ last' = [op |-> "select_move", board |-> board,
                player |-> current_player, r |-> r]
    /\ search_pc' = IF r.raised THEN "raised" ELSE "returned"

\* RandomAgent.select_move(state)
RandomSelectMove ==
    /\ search_pc = "call"
    /\ agent.kind = "random"
    /\ \E r \in random_select_move(board, current_player) : Return(r)
    /\ UNCHANGED <<agent, tree, iteration>>
    /\ SearchFrame

\* MinimaxAgent.select_move(state)
MinimaxSelectMove ==
    /\ search_pc = "call"
    /\ agent.kind = "minimax"
    /\ Return(minimax_select_move(board, current_player, agent.param))
    /\ UNCHANGED <<agent, tree, iteration>>
    /\ SearchFrame

\* select_move of the two MCTS agents up to the loop: it raises without
\* legal moves, returns the only legal move, or makes the root
MctsEnter ==
    /\ search_pc = "call"
    /\ agent.kind \in {"mcts", "enhanced"}
    /\ LET legal_moves == get_legal_moves(board, current_player)
       IN  IF legal_moves = <<>>
           THEN /\ Return([raised |-> TRUE, move |-> NONE,
                           searched |-> FALSE])
                /\ UNCHANGED tree
           ELSE IF Len(legal_moves) = 1
           THEN /\ Return([raised |-> FALSE, move |-> legal_moves[1],
                           searched |-> FALSE])
                /\ UNCHANGED tree
           ELSE /\ tree' = <<MCTSNode(board, current_player, 0, NONE)>>
                /\ search_pc' = "iterate"
                /\ UNCHANGED last
    /\ UNCHANGED <<agent, iteration>>
    /\ SearchFrame

\* one iteration: selection, expansion, simulation, backpropagation
MctsIterate ==
    /\ search_pc = "iterate"
    /\ iteration < agent.param
    /\ tree' \in Iterate(tree, agent.kind)
    /\ iteration' = iteration + 1
    /\ UNCHANGED <<agent, search_pc, last>>
    /\ SearchFrame

\* after the loop: the most visited child of the root
MctsReturn ==
    /\ search_pc = "iterate"
    /\ iteration >= agent.param
    /\ Return([raised |-> FALSE, move |-> BestMove(tree), searched |-> TRUE])
    /\ UNCHANGED <<agent, tree, iteration>>
    /\ SearchFrame

\* MinimaxAgent._minimax(state, depth, -inf, inf, original_player) called on
\* a state as the search calls it on a node, for either root player
MinimaxNode ==
    /\ search_pc = "call"
    /\ agent.kind = "minimax"
    /\ \E original_player \in {PLAYER_SOUTH, PLAYER_NORTH} :
          last' = [op |-> "minimax", board |-> board,
                   player |-> current_player, depth |-> agent.param,
                   original_player |-> original_player,
                   r |-> minimax(board, current_player, agent.param,
                                 -Infinity(board), Infinity(board),
                                 original_player)]
    /\ search_pc' = "returned"
    /\ UNCHANGED <<agent, tree, iteration>>
    /\ SearchFrame

NextMinimax == MinimaxSelectMove

NextMinimaxNode == MinimaxNode

NextMcts == MctsEnter \/ MctsIterate \/ MctsReturn

NextAgents == RandomSelectMove \/ MinimaxSelectMove \/ NextMcts

SpecMinimax == InitMinimax /\ [][NextMinimax]_vars

SpecMinimaxNode == InitMinimaxNode /\ [][NextMinimaxNode]_vars

SpecAgents == InitAgents /\ [][NextAgents]_vars

SpecConvergence == InitConvergence /\ [][NextMcts]_vars

\* ---- Heuristics.evaluate_position called on any state ----

\* a GameState on any board of the bounded set
InitHeuristics ==
    /\ cfg \in [pits_per_row : 1..MaxHeuristicPits, counters_per_pit : {0}]
    /\ \E pits \in [0..(2 * cfg.pits_per_row - 1) -> 0..MaxHeuristicCounters],
          south_kalah \in 0..MaxHeuristicStore,
          north_kalah \in 0..MaxHeuristicStore :
          board = [NewBoard(cfg.pits_per_row, 0) EXCEPT
                      !.pits = pits,
                      !.south_kalah = south_kalah,
                      !.north_kalah = north_kalah]
    /\ current_player \in {PLAYER_SOUTH, PLAYER_NORTH}
    /\ max_moves = 0
    /\ move_count = 0
    /\ last = [op |-> "init"]
    /\ HeapIdle
    /\ PlayIdle
    /\ SearchIdle
    /\ BatchIdle

\* Heuristics.evaluate_position(state, player) for either player; r is
\* twice the float
EvaluatePosition ==
    /\ \E player \in {PLAYER_SOUTH, PLAYER_NORTH} :
          last' = [op |-> "evaluate_position", board |-> board,
                   player |-> player,
                   r |-> evaluate_position(board, player)]
    /\ UNCHANGED <<cfg, max_moves, board, current_player, move_count>>
    /\ RulesFrame

NextHeuristics == EvaluatePosition

SpecHeuristics == InitHeuristics /\ [][NextHeuristics]_vars

\* a game with the default configuration whose states are evaluated
InitDefaultHeuristics ==
    /\ cfg = [pits_per_row |-> DEFAULT_PITS_PER_ROW,
              counters_per_pit |-> DEFAULT_COUNTERS_PER_PIT]
    /\ max_moves = MaxHeuristicMoves
    /\ board = NewBoard(cfg.pits_per_row, cfg.counters_per_pit)
    /\ current_player = PLAYER_SOUTH
    /\ move_count = 0
    /\ last = [op |-> "init"]
    /\ HeapIdle
    /\ PlayIdle
    /\ SearchIdle
    /\ BatchIdle

NextDefaultHeuristics ==
    \/ \E pit_index \in 0..(board.pits_per_row - 1) : Move(pit_index)
    \/ EvaluatePosition

SpecDefaultHeuristics ==
    InitDefaultHeuristics /\ [][NextDefaultHeuristics]_vars

\* ---- MCTSEnhancedAgent.select_move with the heuristic values ----

\* MCTSEnhancedAgent(iterations).select_move(state) on any state
InitEnhanced ==
    /\ cfg \in [pits_per_row : 1..MaxEnhancedPits, counters_per_pit : {0}]
    /\ board \in BoardsUpTo(cfg.pits_per_row, MaxEnhancedTotal,
                            MaxEnhancedStore)
    /\ current_player \in {PLAYER_SOUTH, PLAYER_NORTH}
    /\ agent \in [kind : {"enhanced"}, param : 0..MaxEnhancedIterations]
    /\ Called

\* select_move of the enhanced agent up to the loop
EnhancedEnter ==
    /\ search_pc = "call"
    /\ agent.kind = "enhanced"
    /\ LET legal_moves == get_legal_moves(board, current_player)
       IN  IF legal_moves = <<>>
           THEN /\ Return([raised |-> TRUE, move |-> NONE,
                           searched |-> FALSE])
                /\ UNCHANGED tree
           ELSE IF Len(legal_moves) = 1
           THEN /\ Return([raised |-> FALSE, move |-> legal_moves[1],
                           searched |-> FALSE])
                /\ UNCHANGED tree
           ELSE /\ tree' = <<MCTSEnhancedNode(board, current_player, 0,
                                              NONE)>>
                /\ search_pc' = "iterate"
                /\ UNCHANGED last
    /\ UNCHANGED <<agent, iteration>>
    /\ SearchFrame

\* one iteration of the enhanced agent
EnhancedIterateStep ==
    /\ search_pc = "iterate"
    /\ iteration < agent.param
    /\ tree' \in EnhancedIterate(tree)
    /\ iteration' = iteration + 1
    /\ UNCHANGED <<agent, search_pc, last>>
    /\ SearchFrame

NextEnhanced == EnhancedEnter \/ EnhancedIterateStep \/ MctsReturn

SpecEnhanced == InitEnhanced /\ [][NextEnhanced]_vars

\* ---- a playout of MCTSAgent._simulate, move by move ----

\* random.choice(legal_moves): any legal move; on the board of the largest
\* configuration the playouts followed are those whose draws are the moves
\* of PatientMove
RandomChoice(b, player) ==
    IF b.pits_per_row = MAX_PITS_PER_ROW THEN {PatientMove(b, player)}
    ELSE {get_legal_moves(b, player)[i] :
            i \in 1..Len(get_legal_moves(b, player))}

\* self._simulate(node.state, node.state.current_player) is called:
\* current_state = state, max_moves = 200, move_count = 0
InitRollout ==
    /\ \/ /\ cfg \in [pits_per_row : 1..MaxRolloutPits,
                        counters_per_pit : {0}]
          /\ board \in BoardsUpTo(cfg.pits_per_row, MaxRolloutTotal,
                                  MaxRolloutStore)
       \/ /\ cfg = [pits_per_row |-> MAX_PITS_PER_ROW,
                    counters_per_pit |-> MAX_COUNTERS_PER_PIT]
          /\ board = NewBoard(cfg.pits_per_row, cfg.counters_per_pit)
    /\ current_player \in {PLAYER_SOUTH, PLAYER_NORTH}
    /\ max_moves = ROLLOUT_LIMIT
    /\ move_count = 0
    /\ last = [op |-> "simulate_call", board |-> board,
               player |-> current_player,
               original_player |-> current_player]
    /\ agent = [kind |-> "mcts", param |-> 0]
    /\ search_pc = "simulate"
    /\ tree = <<>>
    /\ iteration = 0
    /\ HeapIdle
    /\ PlayIdle
    /\ BatchIdle

\* one pass of the while loop of _simulate: a random legal move is applied
RolloutStep ==
    /\ search_pc = "simulate"
    /\ ~is_game_over(board) /\ move_count < max_moves
    /\ get_legal_moves(board, current_player) # <<>>
    /\ \E move \in RandomChoice(board, current_player) :
          LET Played(r) == /\ board' = r.new_board
                           /\ current_player' = r.next_player
          IN  Played(apply_move(board, current_player, move))
    /\ move_count' = move_count + 1
    /\ UNCHANGED <<cfg, max_moves, last>>
    /\ UNCHANGED <<heap_vars, play_vars, search_vars, batch_vars>>

\* after the loop of _simulate: the winner of the finalized board gives the
\* result for original_player
RolloutReturn ==
    /\ search_pc = "simulate"
    /\ \/ ~(~is_game_over(board) /\ move_count < max_moves)
       \/ get_legal_moves(board, current_player) = <<>>
    /\ last' = [op |-> "simulate", board |-> last.board,
                player |-> last.player,
                original_player |-> last.original_player,
                current_board |-> board, moves |-> move_count,
                r |-> Outcome(board, last.original_player)]
    /\ search_pc' = "returned"
    /\ UNCHANGED <<cfg, max_moves, board, current_player, move_count>>
    /\ UNCHANGED <<agent, tree, iteration>>
    /\ UNCHANGED <<heap_vars, play_vars, batch_vars>>

NextRollout == RolloutStep \/ RolloutReturn

SpecRollout == InitRollout /\ [][NextRollout]_vars

\* ---- the batch simulation of the controller ----

BatchFrame == UNCHANGED <<rules_vars, heap_vars, play_vars, search_vars>>

\* the controller after its construction; no thread exists
InitBatch ==
    /\ cfg = [pits_per_row |-> DEFAULT_PITS_PER_ROW,
              counters_per_pit |-> DEFAULT_COUNTERS_PER_PIT]
    /\ RulesIdle
    /\ HeapIdle
    /\ PlayIdle
    /\ SearchIdle
    /\ BatchIdle

\* a thread that is about to run batch_worker
NewWorker ==
    [pc |-> "start", num_games |-> 0, i |-> 0, results |-> 0,
     stop_at |-> NONE]

\* GameController.run_batch_simulation: it returns at once while is_running,
\* otherwise it starts a thread on batch_worker
RunBatchSimulation ==
    /\ ~is_running
    /\ Len(workers) < MaxWorkers
    /\ workers' = Append(workers, NewWorker)
    /\ UNCHANGED is_running
    /\ BatchFrame

\* batch_worker up to the call of run_batch: the flag is set and the number
\* of games is read from the configuration panel
BatchWorkerBegin(w) ==
    /\ workers[w].pc = "start"
    /\ is_running' = TRUE
    /\ \E n \in 1..MaxGames :
          workers' = [workers EXCEPT ![w].pc = "loop", ![w].num_games = n]
    /\ BatchFrame

\* GameRunner.run_batch: the head of `for i in range(num_games)`, which
\* starts the next game; is_running is not read
RunBatchLoop(w) ==
    /\ workers[w].pc = "loop"
    /\ workers[w].i < workers[w].num_games
    /\ workers' = [workers EXCEPT ![w].pc = "game", ![w].i = @ + 1]
    /\ UNCHANGED is_running
    /\ BatchFrame

\* GameRunner.run_batch: run_single_game has returned, its result is appended
RunSingleGame(w) ==
    /\ workers[w].pc = "game"
    /\ workers' = [workers EXCEPT ![w].pc = "loop", ![w].results = @ + 1]
    /\ UNCHANGED is_running
    /\ BatchFrame

\* batch_worker after run_batch has returned
BatchWorkerEnd(w) ==
    /\ workers[w].pc = "loop"
    /\ workers[w].i >= workers[w].num_games
    /\ is_running' = FALSE
    /\ workers' = [workers EXCEPT ![w].pc = "done"]
    /\ BatchFrame

\* GameController.stop, called from the window while a batch is running.
\* stop_at is not a field of the program: it remembers how many games the
\* worker had started when stop was first called during its batch.
Stop ==
    /\ \E w \in 1..Len(workers) : workers[w].pc \in {"loop", "game"}
    /\ is_running' = FALSE
    /\ workers' = [w \in 1..Len(workers) |->
                     IF workers[w].pc \in {"loop", "game"}
                          /\ workers[w].stop_at = NONE
                     THEN [workers[w] EXCEPT !.stop_at = workers[w].i]
                     ELSE workers[w]]
    /\ BatchFrame

NextBatch ==
    \/ RunBatchSimulation
    \/ Stop
    \/ \E w \in 1..Len(workers) : BatchWorkerBegin(w)
    \/ \E w \in 1..Len(workers) : RunBatchLoop(w)
    \/ \E w \in 1..Len(workers) : RunSingleGame(w)
    \/ \E w \in 1..Len(workers) : BatchWorkerEnd(w)

SpecBatch == InitBatch /\ [][NextBatch]_vars

\* ---- vocabulary of the properties ----

\* every counter of a board: the pits and both stores
Total(b) == get_total_counters(b) + b.south_kalah + b.north_kalah

\* the counters in one player's row
RowSum(b, player) ==
    SumRange([i \in 0..(b.pits_per_row - 1) |-> get_pit(b, player, i)],
             0, b.pits_per_row - 1)

\* the last operation was a call of apply_move that returned
Moved == last.op = "apply_move" /\ ~last.r.raised

\* board index of the source pit of the last apply_move
SourcePit ==
    IF last.player = PLAYER_SOUTH THEN last.pit_index
    ELSE last.board.pits_per_row + last.pit_index

\* The landing place worked out from the rules of the game instead of the
\* loop: the mover sows round a ring of 2P+1 places (own row 0..P-1, own
\* store P, the opponent's row P+1..2P), the opponent's store not being one.
LandRel(P, pit_index, n) == (pit_index + n) % (2 * P + 1)

\* how often a sowing of n counters passes the opponent's store
Passes(P, pit_index, n) == (pit_index + n) \div (2 * P + 1)

\* board index of the pit the last counter lands in, NONE for the own store
LandPit(P, player, pit_index, n) ==
    LET rel == LandRel(P, pit_index, n)
    IN  IF rel = P THEN NONE
        ELSE IF rel < P
        THEN (IF player = PLAYER_SOUTH THEN rel ELSE P + rel)
        ELSE (IF player = PLAYER_SOUTH THEN rel - 1 ELSE rel - P - 1)

\* C1: conservation. Every board reached from the initial board by legal
\* moves, and its finalization, holds 2*P*C counters in pits and stores.
C1_Conservation ==
    LET all == 2 * cfg.pits_per_row * cfg.counters_per_pit
    IN  /\ Total(board) = all
        /\ (last.op = "finalize_game" => Total(last.r) = all)

\* C1 witness: a game that was played to a terminal board with counters left
\* in a row, then finalized
C1_Witness ==
    /\ last.op = "finalize_game"
    /\ move_count > 2
    /\ is_game_over(last.board)
    /\ get_total_counters(last.board) > 0
    /\ get_total_counters(last.r) = 0

\* C2: get_legal_moves returns exactly the row-relative indices of the
\* non-empty pits of the player's row, in increasing order; an empty row
\* gives the empty list and the board is then terminal.
C2_LegalMoves ==
    last.op = "get_legal_moves" =>
        LET b == last.board
            P == b.pits_per_row
            r == last.r
        IN  /\ \A k \in 1..Len(r) :
                  r[k] \in 0..(P - 1) /\ get_pit(b, last.player, r[k]) > 0
            /\ \A i \in 0..(P - 1) :
                  get_pit(b, last.player, i) > 0 =>
                      \E k \in 1..Len(r) : r[k] = i
            /\ \A k \in 1..(Len(r) - 1) : r[k] < r[k + 1]
            /\ (RowSum(b, last.player) = 0 =>
                    r = <<>> /\ is_game_over(b))

\* C2 witness: North's row with pit 0 empty and pit 1 not
C2_Witness ==
    /\ last.op = "get_legal_moves"
    /\ last.player = PLAYER_NORTH
    /\ last.board.pits_per_row = 2
    /\ last.r = <<1>>
    /\ last.board.pits[0] > 0

\* the capture condition of the last apply_move, on the board as sown
CaptureCase ==
    LET r == last.r
        P == last.board.pits_per_row
        i == r.last_pit_index
    IN  /\ i # NONE
        /\ (IF last.player = PLAYER_SOUTH THEN i \in 0..(P - 1)
            ELSE i \in P..(2 * P - 1))
        /\ r.sown.pits[i] = 1
        /\ r.sown.pits[2 * P - 1 - i] > 0

\* C3: a capture happens iff the last counter landed in a pit of the mover's
\* row that now holds 1 and the pit opposite (2P-1-i) is not empty; then both
\* pits are emptied, the mover's store grows by the opposite count + 1, the
\* kind is CAPTURE and the opponent moves next.
C3_Capture ==
    Moved =>
        LET r == last.r
            P == last.board.pits_per_row
            i == r.last_pit_index
        IN  /\ i = LandPit(P, last.player, last.pit_index, r.counters)
            /\ (r.move_type = MOVE_CAPTURE <=> CaptureCase)
            /\ (CaptureCase =>
                  /\ r.new_board.pits =
                        [r.sown.pits EXCEPT ![i] = 0, ![2 * P - 1 - i] = 0]
                  /\ get_kalah(r.new_board, last.player) =
                        get_kalah(r.sown, last.player)
                        + r.sown.pits[2 * P - 1 - i] + 1
                  /\ get_kalah(r.new_board, 1 - last.player) =
                        get_kalah(last.board, 1 - last.player)
                  /\ r.next_player = 1 - last.player)
            /\ (~CaptureCase => r.new_board = r.sown)

\* C3 witness: the landing pit was empty, the opposite pit holds 3, the
\* mover's store grows by 4
C3_Witness ==
    /\ Moved
    /\ last.r.move_type = MOVE_CAPTURE
    /\ last.board.pits[last.r.last_pit_index] = 0
    /\ last.board.pits[2 * last.board.pits_per_row - 1
                       - last.r.last_pit_index] = 3
    /\ get_kalah(last.r.new_board, last.player) =
          get_kalah(last.board, last.player) + 4

\* C4: the next player is the mover iff the last counter landed in the
\* mover's store; the kind is then EXTRA_TURN and nothing is captured: no
\* pit but the source pit loses a counter.
C4_ExtraTurn ==
    Moved =>
        LET r == last.r
            b == last.board
            P == b.pits_per_row
            inStore == LandRel(P, last.pit_index, r.counters) = P
        IN  /\ (r.next_player = last.player <=> inStore)
            /\ (r.move_type = MOVE_EXTRA_TURN <=> inStore)
            /\ r.last_was_kalah = inStore
            /\ (inStore =>
                  /\ r.new_board = r.sown
                  /\ \A j \in 0..(2 * P - 1) :
                        j # SourcePit => r.new_board.pits[j] >= b.pits[j])

\* C4 witness: an extra turn for North after the sowing went round the board
C4_Witness ==
    /\ Moved
    /\ last.player = PLAYER_NORTH
    /\ last.r.move_type = MOVE_EXTRA_TURN
    /\ last.r.counters > 2 * last.board.pits_per_row + 1
    /\ current_player = PLAYER_NORTH

\* C5: apply_move leaves the opponent's store as it was and places exactly
\* the counters it picked up, one per step, into pits and the mover's store.
C5_OpponentStoreSkip ==
    Moved =>
        LET r == last.r
            b == last.board
            P == b.pits_per_row
            picked == [b.pits EXCEPT ![SourcePit] = 0]
            placed == SumRange([j \in 0..(2 * P - 1) |->
                                   r.sown.pits[j] - picked[j]], 0, 2 * P - 1)
                      + get_kalah(r.sown, last.player)
                      - get_kalah(b, last.player)
        IN  /\ r.counters = b.pits[SourcePit]
            /\ get_kalah(r.sown, 1 - last.player) =
                  get_kalah(b, 1 - last.player)
            /\ get_kalah(r.new_board, 1 - last.player) =
                  get_kalah(b, 1 - last.player)
            /\ \A j \in 0..(2 * P - 1) : r.sown.pits[j] >= picked[j]
            /\ get_kalah(r.sown, last.player) >= get_kalah(b, last.player)
            /\ placed = r.counters

\* C5 witness: a sowing that passes the opponent's store twice
C5_Witness ==
    /\ Moved
    /\ Passes(last.board.pits_per_row, last.pit_index, last.r.counters) >= 2

\* C6: on the initial board of 6 pits per row and 4 counters per pit, South
\* playing pit 2 empties pit 2, makes pits 3, 4 and 5 hold 5, the South
\* store 1, leaves the rest, is an EXTRA_TURN and South moves again.
C6_DefaultOpening ==
    (/\ Moved
     /\ last.board = NewBoard(6, 4)
     /\ last.player = PLAYER_SOUTH
     /\ last.pit_index = 2) =>
        /\ last.r.new_board.pits =
              [i \in 0..11 |-> IF i = 2 THEN 0
                               ELSE IF i \in 3..5 THEN 5 ELSE 4]
        /\ last.r.new_board.south_kalah = 1
        /\ last.r.new_board.north_kalah = 0
        /\ last.r.move_type = MOVE_EXTRA_TURN
        /\ last.r.next_player = PLAYER_SOUTH
        /\ board = last.r.new_board
        /\ current_player = PLAYER_SOUTH

\* C6 witness: South has played pit 2 on the initial default board
C6_Witness ==
    /\ Moved
    /\ last.board = NewBoard(6, 4)
    /\ last.player = PLAYER_SOUTH
    /\ last.pit_index = 2
    /\ move_count = 1

\* C7: finalize_game with an empty South row moves the North row into the
\* North store and leaves the South store; with an empty North row the South
\* row goes to the South store; a finalized terminal board has no counter
\* in any pit.
C7_Finalization ==
    last.op = "finalize_game" =>
        LET b == last.board
            f == last.r
            P == b.pits_per_row
            swept == \A j \in 0..(2 * P - 1) : f.pits[j] = 0
        IN  /\ (RowSum(b, PLAYER_SOUTH) = 0 =>
                  /\ f.north_kalah = b.north_kalah + RowSum(b, PLAYER_NORTH)
                  /\ f.south_kalah = b.south_kalah
                  /\ swept)
            /\ (RowSum(b, PLAYER_NORTH) = 0 =>
                  /\ f.south_kalah = b.south_kalah + RowSum(b, PLAYER_SOUTH)
                  /\ f.north_kalah = b.north_kalah
                  /\ swept)
            /\ (is_game_over(b) => swept)

\* C7 witness: South's row is empty and both pits of North's row hold counters
C7_Witness ==
    /\ last.op = "finalize_game"
    /\ last.board.pits_per_row = 2
    /\ RowSum(last.board, PLAYER_SOUTH) = 0
    /\ last.board.pits[2] > 0
    /\ last.board.pits[3] > 0
    /\ last.r.north_kalah > last.board.north_kalah + 1

\* the stores of a board after the end-of-game sweep
FinalSouth(b) ==
    b.south_kalah
    + (IF RowSum(b, PLAYER_NORTH) = 0 THEN RowSum(b, PLAYER_SOUTH) ELSE 0)

FinalNorth(b) ==
    b.north_kalah
    + (IF RowSum(b, PLAYER_SOUTH) = 0 THEN RowSum(b, PLAYER_NORTH) ELSE 0)

\* the winner by the finalized stores
ByFinalStores(b, winner) ==
    /\ (FinalSouth(b) > FinalNorth(b) => winner = PLAYER_SOUTH)
    /\ (FinalSouth(b) < FinalNorth(b) => winner = PLAYER_NORTH)
    /\ (FinalSouth(b) = FinalNorth(b) => winner = NONE)

C9_GameOver ==
    last.op = "is_game_over" =>
        (last.r <=> (RowSum(last.board, PLAYER_SOUTH) = 0
                     \/ RowSum(last.board, PLAYER_NORTH) = 0))

\* C9 witness: North is to move and has no counter, South has some, and the
\* stores differ
C9_Witness ==
    /\ last.op = "is_game_over"
    /\ last.r
    /\ last.player = PLAYER_NORTH
    /\ RowSum(last.board, PLAYER_NORTH) = 0
    /\ RowSum(last.board, PLAYER_SOUTH) > 0
    /\ last.board.south_kalah # last.board.north_kalah

\* C10: apply_move on an empty source pit raises the illegal-move error,
\* returns no board and leaves the board it was given, and the state of the
\* caller, as they were.
C10_IllegalMove ==
    (last.op = "apply_move" /\ last.board.pits[SourcePit] = 0) =>
        /\ last.r.raised
        /\ last.r.new_board = NONE
        /\ last.r.move_type = NONE
        /\ last.r.next_player = NONE
        /\ last.r.arg = last.board
        /\ board = last.board
        /\ current_player = last.player

\* C10 witness: the error is raised although the mover has a pit to play
C10_Witness ==
    /\ last.op = "apply_move"
    /\ last.r.raised
    /\ get_legal_moves(board, current_player) # <<>>

\* how many counters of a sowing of n from pit_index fall into the mover's store
StoreDrops(P, pit_index, n) ==
    Cardinality({k \in 1..n : LandRel(P, pit_index, k) = P})

\* the last counter landed in an empty pit of the mover's row and the pit
\* opposite holds nothing
LoneLanding ==
    LET r == last.r
        P == last.board.pits_per_row
        i == LandPit(P, last.player, last.pit_index, r.counters)
    IN  /\ i # NONE
        /\ (IF last.player = PLAYER_SOUTH THEN i \in 0..(P - 1)
            ELSE i \in P..(2 * P - 1))
        /\ r.sown.pits[i] = 1
        /\ r.sown.pits[2 * P - 1 - i] = 0

\* C20: when the last counter lands in an empty pit of the mover's row and
\* the opposite pit is empty, the counter stays where it landed, the stores
\* hold what the sowing itself put there, the kind is NORMAL and the
\* opponent moves next.
C20_NoCaptureFromEmpty ==
    (Moved /\ LoneLanding) =>
        LET r == last.r
            b == last.board
            P == b.pits_per_row
            i == LandPit(P, last.player, last.pit_index, r.counters)
        IN  /\ r.new_board.pits = r.sown.pits
            /\ r.new_board.pits[i] = 1
            /\ r.new_board.pits[2 * P - 1 - i] = 0
            /\ get_kalah(r.new_board, last.player) =
                  get_kalah(b, last.player)
                  + StoreDrops(P, last.pit_index, r.counters)
            /\ get_kalah(r.new_board, 1 - last.player) =
                  get_kalah(b, 1 - last.player)
            /\ r.move_type = MOVE_NORMAL
            /\ r.next_player = 1 - last.player

\* C20 witness: North lands so, with counters in both stores
C20_Witness ==
    /\ Moved
    /\ LoneLanding
    /\ last.player = PLAYER_NORTH
    /\ last.r.new_board.north_kalah > 0
    /\ last.r.new_board.south_kalah > 0
    /\ current_player = PLAYER_SOUTH

\* what a GameState object stands for: pits, stores, player to move, history
StateValue(hp, s) ==
    [board |-> BoardValue(hp, hp.states[s].board),
     current_player |-> hp.states[s].current_player,
     move_history |-> hp.lists[hp.states[s].move_history]]

\* C11: no call of apply_move or finalize_game changes a state that exists:
\* the pits, stores, current_player and move_history of the state called
\* on, and of every other state (its ancestors, its other branches), are
\* after the call what they were before.
C11_StatesImmutable ==
    [][\A s \in 1..Len(states) :
          StateValue([boards |-> boards', lists |-> lists',
                      states |-> states'], s) = StateValue(Heap, s)]_vars

\* C11 witness: two branches from the fresh state, a move applied to the
\* state that one of them returned, and a board finalized
C11_Witness ==
    /\ Len(states) >= 4
    /\ Len(boards) > Len(states)
    /\ \E a, b, c \in 2..Len(states) :
          /\ Len(lists[states[a].move_history]) = 1
          /\ Len(lists[states[b].move_history]) = 1
          /\ lists[states[a].move_history] # lists[states[b].move_history]
          /\ Len(lists[states[c].move_history]) = 2
          /\ StateValue(Heap, c).board # StateValue(Heap, a).board

\* the last step was an iteration of play_game's loop
Played == last.op = "play_step"

\* the agent's answer was no legal move, or an exception
AgentFailed ==
    \/ last.out.raised
    \/ \A i \in 1..Len(last.legal_moves) : last.legal_moves[i] # last.out.move

\* C12: in every iteration of play_game whose agent returned no legal move
\* or raised, the move applied is the first, lowest legal move, and the game
\* went on; every move applied is a legal move of the state it is applied
\* to, and apply_move never raises.
C12_EngineFallback ==
    /\ pc # "raised"
    /\ Played =>
          /\ ~last.r.raised
          /\ \E i \in 1..Len(last.legal_moves) : last.legal_moves[i] = last.move
          /\ get_pit(last.board, last.player, last.move) > 0
          /\ AgentFailed =>
                /\ last.move = last.legal_moves[1]
                /\ \A i \in 1..Len(last.legal_moves) :
                      last.move <= last.legal_moves[i]
                /\ board = last.r.new_board
                /\ pc = "loop"
          /\ ~AgentFailed => last.move = last.out.move

\* C12 witness: in the middle of a game the agent raised, pit 0 was empty
\* and the engine went on with the first legal pit
C12_Witness ==
    /\ Played
    /\ last.out.raised
    /\ last.move > 0
    /\ move_count > 1
    /\ pc = "loop"

\* play_game has returned its result
Returned == pc = "done"

\* C13 (safety part): one move is applied per iteration, an iteration runs
\* only while the state is not terminal and fewer than 500 moves were
\* applied, and the result is built exactly when the state is terminal or
\* 500 moves were applied, with moves <= 500 and moves = len(move_history).
C13_LoopInvariant ==
    /\ pc \in {"loop", "done"}
    /\ max_moves = SAFETY_LIMIT
    /\ move_count = Len(move_history)
    /\ move_count <= SAFETY_LIMIT
    /\ Played =>
          /\ ~is_game_over(last.board)
          /\ move_count - 1 < SAFETY_LIMIT
          /\ board = last.r.new_board
    /\ Returned =>
          /\ is_game_over(board) \/ move_count = SAFETY_LIMIT
          /\ result.moves = move_count
          /\ result.moves <= SAFETY_LIMIT
          /\ result.moves = Len(result.move_history)

\* C13 (progress part): a step of the running play_game either returns the
\* result or applies exactly one more move, so that with at most 500 moves
\* applied the loop is left after at most 500 iterations.
C13_Progress ==
    pc = "loop" =>
        \/ pc' = "done" /\ result'.moves = move_count
        \/ /\ pc' = "loop"
           /\ move_count' = move_count + 1
           /\ Len(move_history') = Len(move_history) + 1

\* C13: play_game always returns a result; its loop applies one move per
\* iteration and stops exactly when the state is terminal or 500 moves have
\* been applied; moves is at most 500 and is the length of move_history,
\* whatever the agents return.
C13_PlayReturns == []C13_LoopInvariant /\ [][C13_Progress]_vars

\* C13 witness: a game returned because 500 moves were applied, its state
\* not terminal
C13_Witness ==
    /\ Returned
    /\ result.moves = SAFETY_LIMIT
    /\ Len(result.move_history) = SAFETY_LIMIT
    /\ ~is_game_over(board)

\* C14: in every result of play_game the winner agrees with the scores:
\* South iff south_score > north_score, North iff north_score >
\* south_score, the draw value iff the scores are equal.
C14_WinnerAgreesWithScores ==
    Returned =>
        /\ result.winner = PLAYER_SOUTH <=> result.south_score > result.north_score
        /\ result.winner = PLAYER_NORTH <=> result.north_score > result.south_score
        /\ result.winner = NONE <=> result.south_score = result.north_score

\* select_move has returned or raised
Selected == last.op = "select_move"

\* the final score difference for mover of a terminal board
FinalDiff(b, mover) ==
    LET final_board == finalize_game(b)
    IN  IF mover = PLAYER_SOUTH
        THEN final_board.south_kalah - final_board.north_kalah
        ELSE final_board.north_kalah - final_board.south_kalah

\* the values of f over a sequence of moves
Values(legal_moves, f(_)) == {f(legal_moves[i]) : i \in 1..Len(legal_moves)}

SetMax(S) == CHOOSE x \in S : \A y \in S : x >= y
SetMin(S) == CHOOSE x \in S : \A y \in S : x <= y

RECURSIVE BestPlay(_, _, _)
\* the final score difference for mover under best play by both sides from
\* the state (b, player): the whole game tree, nothing pruned
BestPlay(b, player, mover) ==
    IF is_game_over(b) THEN FinalDiff(b, mover)
    ELSE LET After(m) == LET r == apply_move(b, player, m)
                         IN  BestPlay(r.new_board, r.next_player, mover)
             values == Values(get_legal_moves(b, player), After)
         IN  IF player = mover THEN SetMax(values) ELSE SetMin(values)

RECURSIVE GameLength(_, _)
\* the remaining game length: the most moves any play from (b, player) has
GameLength(b, player) ==
    IF is_game_over(b) THEN 0
    ELSE LET After(m) == LET r == apply_move(b, player, m)
                         IN  GameLength(r.new_board, r.next_player)
         IN  1 + SetMax(Values(get_legal_moves(b, player), After))

\* best play after move m of the state select_move was called on
AfterMove(m) ==
    LET r == apply_move(last.board, last.player, m)
    IN  BestPlay(r.new_board, r.next_player, last.player)

\* C17: in a game that is not over, when the depth of MinimaxAgent is at
\* least the remaining game length, the move select_move returns leads
\* under best play by both sides to a final score difference for the mover
\* that no other legal move improves on.
C17_MinimaxOptimal ==
    (/\ Selected
     /\ agent.kind = "minimax"
     /\ ~last.r.raised
     /\ ~is_game_over(last.board)
     /\ agent.param >= GameLength(last.board, last.player))
        => \A i \in 1..Len(get_legal_moves(last.board, last.player)) :
              AfterMove(last.r.move)
                  >= AfterMove(get_legal_moves(last.board, last.player)[i])

\* C17 witness: a search of full depth from a state of at least three moves
\* to go, with two legal moves of different worth, the first not the best
C17_Witness ==
    /\ Selected
    /\ agent.kind = "minimax"
    /\ last.r.searched
    /\ GameLength(last.board, last.player) >= 3
    /\ agent.param >= GameLength(last.board, last.player)
    /\ last.r.move # get_legal_moves(last.board, last.player)[1]
    /\ AfterMove(last.r.move)
          > AfterMove(get_legal_moves(last.board, last.player)[1])

\* m is one of the legal moves of (b, player)
IsLegal(b, player, m) ==
    \E i \in 1..Len(get_legal_moves(b, player)) :
        get_legal_moves(b, player)[i] = m

\* C15: on a state that is not terminal select_move of every agent (Random,
\* Minimax of any depth, MCTS and enhanced MCTS of any number of
\* iterations) returns an index in [0, P) that is a legal move of the
\* state, and the state it was given is what it was.
C15_AgentContract ==
    /\ ~is_game_over(board) => search_pc # "raised"
    /\ (Selected /\ ~is_game_over(last.board)) =>
          /\ ~last.r.raised
          /\ last.r.move \in 0..(last.board.pits_per_row - 1)
          /\ IsLegal(last.board, last.player, last.r.move)
          /\ get_pit(last.board, last.player, last.r.move) > 0
          /\ board = last.board
          /\ current_player = last.player

\* C15 witness: MCTS has returned, after three iterations on a state that
\* is not terminal, a move that is not the first legal move
C15_Witness ==
    /\ Selected
    /\ agent.kind = "mcts"
    /\ iteration >= 3
    /\ ~is_game_over(last.board)
    /\ last.r.searched
    /\ last.r.move # get_legal_moves(last.board, last.player)[1]

C18_MctsConvergence ==
    (/\ Selected
     /\ agent.kind = "mcts"
     /\ agent.param >= MIN_MCTS_ITERATIONS
     /\ OneMoveToWin(last.board, last.player))
        => WinsAtOnce(last.board, last.player, last.r.move)

\* C19: after stop() is called while a batch simulation is running, the
\* batch worker finishes at most the game it is playing and starts no
\* further game: the number of games it has started stays what it was when
\* stop was called.
C19_BatchStop ==
    \A w \in 1..Len(workers) :
        workers[w].stop_at # NONE => workers[w].i <= workers[w].stop_at

\* what pit i holds after the pick-up and the first k counters of the last
\* sowing, worked out from the ring of places instead of the loop
HeldAfter(i, k) ==
    (IF i = SourcePit THEN 0 ELSE last.board.pits[i])
    + Cardinality({j \in 1..k :
          LandPit(last.board.pits_per_row, last.player, last.pit_index, j)
              = i})

\* the last sowing went round the board: it put a counter back into the
\* source pit or beyond
MultiLap == last.r.counters >= 2 * last.board.pits_per_row + 1

\* C21: a sowing that goes round the board captures iff its last counter
\* landed in a pit of the mover's row that held nothing just before that
\* counter (the counters this sowing dropped there earlier count, the
\* picked-up source pit counts as empty) and the opposite pit is not empty;
\* no other pit decides it.
C21_MultiLapCapture ==
    (Moved /\ MultiLap) =>
        LET r == last.r
            P == last.board.pits_per_row
            i == LandPit(P, last.player, last.pit_index, r.counters)
            own == IF last.player = PLAYER_SOUTH THEN i \in 0..(P - 1)
                   ELSE i \in P..(2 * P - 1)
        IN  /\ \A j \in 0..(2 * P - 1) :
                  r.sown.pits[j] = HeldAfter(j, r.counters)
            /\ (r.move_type = MOVE_CAPTURE <=>
                  /\ i # NONE
                  /\ own
                  /\ HeldAfter(i, r.counters - 1) = 0
                  /\ HeldAfter(2 * P - 1 - i, r.counters) > 0)

\* C21 witness: a sowing round the board ends in a pit of the mover's row
\* that was empty before the move and got a counter earlier in this sowing;
\* the opposite pit holds counters and nothing is captured
C21_Witness ==
    /\ Moved
    /\ MultiLap
    /\ last.r.last_pit_index # NONE
    /\ is_own_pit(last.r.last_pit_index, last.player,
                  last.board.pits_per_row)
    /\ last.r.last_pit_index # SourcePit
    /\ last.board.pits[last.r.last_pit_index] = 0
    /\ last.r.sown.pits[last.r.last_pit_index] = 2
    /\ last.r.sown.pits[2 * last.board.pits_per_row - 1
                        - last.r.last_pit_index] > 0
    /\ last.r.move_type = MOVE_NORMAL

RECURSIVE Replay(_, _, _, _)
\* the moves of a history played again from (b, player), entry i onwards:
\* ok when every entry names the player to move, a pit that can be played
\* and the kind of move that the rules give
Replay(b, player, history, i) ==
    IF i > Len(history)
    THEN [ok |-> TRUE, board |-> b, current_player |-> player]
    ELSE IF history[i][1] # player \/ history[i][2] \notin 0..(b.pits_per_row - 1)
    THEN [ok |-> FALSE, board |-> b, current_player |-> player]
    ELSE LET Then(r) ==
                 IF r.raised \/ r.move_type # history[i][3]
                 THEN [ok |-> FALSE, board |-> b, current_player |-> player]
                 ELSE Replay(r.new_board, r.next_player, history, i + 1)
         IN  Then(apply_move(b, player, history[i][2]))

\* the history of state s is the record of the moves that lead from the
\* fresh state to s
C22_Replayed ==
    \A s \in 1..Len(states) :
        LET v == StateValue(Heap, s)
            replayed == Replay(NewBoard(cfg.pits_per_row,
                                        cfg.counters_per_pit),
                               PLAYER_SOUTH, v.move_history, 1)
        IN  /\ replayed.ok
            /\ replayed.board.pits = v.board.pits
            /\ replayed.board.south_kalah = v.board.south_kalah
            /\ replayed.board.north_kalah = v.board.north_kalah
            /\ replayed.current_player = v.current_player

\* a call that returned a state: its history is the history of the state
\* called on followed by one entry, and no history that existed has changed
C22_Appended ==
    /\ \A l \in 1..Len(lists) : lists'[l] = lists[l]
    /\ Len(states') > Len(states) =>
          \E s \in 1..Len(states), pit_index \in 0..(cfg.pits_per_row - 1) :
              LET old == StateValue(Heap, s)
                  new == lists'[states'[Len(states')].move_history]
              IN  /\ Len(new) = Len(old.move_history) + 1
                  /\ SubSeq(new, 1, Len(new) - 1) = old.move_history
                  /\ new[Len(new)][1] = old.current_player
                  /\ new[Len(new)][2] = pit_index
                  /\ new[Len(new)][3] =
                        apply_move(old.board, old.current_player,
                                   pit_index).move_type

\* C22: the state that apply_move(pit) returns has the history of the state
\* it was called on followed by exactly one entry (the player who moved, the
\* pit, the kind of move); no entry that exists is changed or removed, and
\* the history of a state n moves from the fresh state is those n moves.
C22_HistoryAppendOnly == []C22_Replayed /\ [][C22_Appended]_vars

\* C22 witness: a state three moves from the fresh state whose history
\* holds an extra turn, the same player twice in a row
C22_Witness ==
    \E s \in 1..Len(states) :
        LET history == lists[states[s].move_history]
        IN  /\ Len(history) = 3
            /\ history[1][1] = history[2][1]
            /\ history[1][3] = MOVE_EXTRA_TURN
            /\ history[3][1] # history[1][1]

RECURSIVE PlainMinimax(_, _, _, _)
\* minimax to the given depth with nothing pruned: a node maximizes when its
\* mover is original_player and minimizes otherwise
PlainMinimax(b, player, depth, original_player) ==
    IF is_game_over(b) \/ depth = 0 THEN evaluate(b, original_player)
    ELSE LET legal_moves == get_legal_moves(b, player)
             After(m) == LET r == apply_move(b, player, m)
                         IN  PlainMinimax(r.new_board, r.next_player,
                                          depth - 1, original_player)
         IN  IF legal_moves = <<>> THEN evaluate(b, original_player)
             ELSE IF player = original_player
             THEN SetMax(Values(legal_moves, After))
             ELSE SetMin(Values(legal_moves, After))

\* the unpruned value of move m of the state select_move was called on
PlainValue(m) ==
    LET r == apply_move(last.board, last.player, m)
    IN  PlainMinimax(r.new_board, r.next_player, agent.param - 1, last.player)

\* the unpruned values of the legal moves of that state, in their order
PlainValues ==
    LET legal_moves == get_legal_moves(last.board, last.player)
    IN  [i \in 1..Len(legal_moves) |-> PlainValue(legal_moves[i])]

\* the first legal move, in increasing pit index, of the highest unpruned value
FirstBest ==
    LET legal_moves == get_legal_moves(last.board, last.player)
        FirstOf(values) ==
            legal_moves[CHOOSE i \in 1..Len(legal_moves) :
                           /\ \A j \in 1..Len(legal_moves) :
                                 values[j] <= values[i]
                           /\ \A j \in 1..(i - 1) : values[j] < values[i]]
    IN  FirstOf(PlainValues)

\* C23: for every state and depth D >= 1 the move the alpha-beta search of
\* MinimaxAgent returns is the first legal move that attains the highest
\* value of an unpruned minimax of depth D, in which a node maximizes when
\* its mover is the root's mover: pruning never changes the move.
C23_AlphaBetaIsMinimax ==
    (/\ Selected
     /\ agent.kind = "minimax"
     /\ agent.param >= 1
     /\ last.r.searched)
        => last.r.move = FirstBest

\* C23 witness: a search two or more plies deep in which a move of the root
\* gives its mover another turn, the moves of the root differ in value and
\* the move returned is not the first one
C23_Witness ==
    /\ Selected
    /\ agent.kind = "minimax"
    /\ agent.param >= 2
    /\ last.r.searched
    /\ last.r.move # get_legal_moves(last.board, last.player)[1]
    /\ \E i \in 1..Len(get_legal_moves(last.board, last.player)) :
          LET m == get_legal_moves(last.board, last.player)[i]
              r == apply_move(last.board, last.player, m)
          IN  /\ r.move_type = MOVE_EXTRA_TURN
              /\ ~is_game_over(r.new_board)
              /\ PlainValue(m) < PlainValue(last.r.move)

\* the last operation was a call of _minimax on a node
Scored == last.op = "minimax"

\* the finalized South store minus the finalized North store, seen by player
FinalDiffFor(b, player) ==
    IF player = PLAYER_SOUTH THEN FinalSouth(b) - FinalNorth(b)
    ELSE FinalNorth(b) - FinalSouth(b)

\* C24: _minimax scores a terminal state as the finalized South store minus
\* North store, negated when the root player is North, whatever depth is
\* left and never by the heuristic; a state that is not terminal is scored
\* at depth 0 by the heuristic for the root player.  The score of a terminal
\* state is positive, zero or negative as the root player wins, draws or
\* loses the finalized game.  (The model's scores are twice the floats.)
C24_LeafScoring ==
    Scored =>
        LET b == last.board
            root == last.original_player
            winner == get_winner(b)
        IN  /\ is_game_over(b) =>
                  /\ last.r = 2 * FinalDiffFor(b, root)
                  /\ (last.r > 0 <=> winner = root)
                  /\ (last.r = 0 <=> winner = NONE)
                  /\ (last.r < 0 <=> winner = 1 - root)
            /\ (~is_game_over(b) /\ last.depth = 0) =>
                  last.r = evaluate_position(b, root)

\* C24 witness: a terminal state scored with depth left for the root player
\* North, who wins the finalized game; the heuristic would say otherwise
C24_Witness ==
    /\ Scored
    /\ is_game_over(last.board)
    /\ last.depth >= 1
    /\ last.original_player = PLAYER_NORTH
    /\ last.player = PLAYER_SOUTH
    /\ last.r > 0
    /\ evaluate_position(last.board, PLAYER_NORTH) # last.r

C26_OneNodePerIteration ==
    (agent.kind = "mcts" /\ search_pc = "iterate")
        => Len(tree) <= 1 + iteration

RECURSIVE LevelsAbove(_, _, _)
\* how many levels node i is above node n in tree t, NONE when i is not on
\* the path from n to the root
LevelsAbove(t, n, i) ==
    IF n = i THEN 0
    ELSE IF t[n].parent = 0 THEN NONE
    ELSE LET k == LevelsAbove(t, t[n].parent, i)
         IN  IF k = NONE THEN NONE ELSE k + 1

\* the visits and the doubled wins node i had in tree t, 0 for a node that
\* t does not hold yet
VisitsIn(t, i) == IF i <= Len(t) THEN t[i].visits ELSE 0

Wins2In(t, i) == IF i <= Len(t) THEN t[i].wins2 ELSE 0

\* the iteration that led from tree t to tree u backpropagated result2 from
\* node n: visits + 1 and wins + r or + 1 - r by level on the path from n
\* to the root, nothing else changed
BackpropagatedFrom(t, u, n, result2) ==
    \A i \in 1..Len(u) :
        LET k == LevelsAbove(u, n, i)
        IN  IF k = NONE
            THEN /\ u[i].visits = VisitsIn(t, i)
                 /\ u[i].wins2 = Wins2In(t, i)
            ELSE /\ u[i].visits = VisitsIn(t, i) + 1
                 /\ u[i].wins2 = Wins2In(t, i)
                        + (IF k % 2 = 0 THEN result2 ELSE 2 - result2)

\* the nodes a playout of this iteration can have started from: a node
\* that is new and a leaf, or a terminal node
Simulated(t, u) ==
    {n \in 1..Len(u) :
        \/ is_game_over(u[n].board)
        \/ n > Len(t) /\ u[n].children = <<>>}

\* C27: an iteration of MCTSAgent adds 1 to the visits of exactly the nodes
\* on the path from the simulated node to the root, and adds the result r
\* of the playout to the wins of the nodes an even number of levels above
\* it and 1 - r to those an odd number above, whoever is to move there.
C27_Backpropagation ==
    [][(agent.kind = "mcts" /\ search_pc = "iterate" /\ tree' # tree)
          => \E n \in Simulated(tree, tree') :
               \E result2 \in simulate(tree'[n].board, tree'[n].player,
                                       tree'[n].player, 0) :
                   BackpropagatedFrom(tree, tree', n, result2)]_vars

\* an iteration has backpropagated a win or a loss through a node whose
\* parent has the same player to move (the move to it gave an extra turn)
C27_Witness ==
    /\ agent.kind = "mcts"
    /\ search_pc = "iterate"
    /\ \E n \in 1..Len(tree) :
          /\ tree[n].parent # 0
          /\ tree[n].visits >= 1
          /\ tree[n].wins2 # tree[n].visits
          /\ tree[tree[n].parent].player = tree[n].player

\* child number i of the root, in the order in which the children were
\* added, has the most visits and is the first child that has them
FirstMostVisited(t, i) ==
    LET cs == Children(t, 1)
    IN  /\ \A j \in 1..Len(cs) : t[cs[j]].visits <= t[cs[i]].visits
        /\ \A j \in 1..(i - 1) : t[cs[j]].visits < t[cs[i]].visits

Simulated_returned == last.op = "simulate"

\* C29: a playout of MCTSAgent plays legal moves until the state is
\* terminal or 200 moves were played, and returns 1.0 when the winner of
\* the finalized board is the player to move at the node, 0.0 when it is
\* the other player and 0.5 on a draw; a playout cut off after 200 moves
\* on a state that is not terminal returns 0.5 whatever the stores hold.
C29_SimulationResult ==
    /\ search_pc = "simulate" =>
          /\ move_count <= ROLLOUT_LIMIT
          /\ last.original_player = last.player
    /\ Simulated_returned =>
          /\ last.original_player = last.player
          /\ IF is_game_over(last.current_board)
             THEN /\ last.moves <= ROLLOUT_LIMIT
                  /\ last.r =
                       IF FinalDiffFor(last.current_board, last.player) > 0
                       THEN 2
                       ELSE IF FinalDiffFor(last.current_board,
                                            last.player) < 0
                       THEN 0
                       ELSE 1
             ELSE /\ last.moves = ROLLOUT_LIMIT
                  /\ last.r = 1
          /\ last.board.pits_per_row <= MaxRolloutPits
                => last.r \in simulate(last.board, last.player,
                                       last.original_player, 0)

\* a playout was cut off after 200 moves on a state that is not terminal
\* and whose stores differ
C29_Witness ==
    /\ Simulated_returned
    /\ last.moves = ROLLOUT_LIMIT
    /\ ~is_game_over(last.current_board)
    /\ last.current_board.south_kalah # last.current_board.north_kalah
    /\ last.r = 1

\* the node an iteration on tree t simulates from when the selection
\* stopped at stop
SimulatedNode(t, stop) ==
    LET e == Expansion(t, stop)
    IN  e.tree[e.node]

\* C30: with alpha = 0 the score of select_child of the enhanced node is
\* wins / visits plus the exploration term, the score of MCTSAgent, so on
\* the same tree the same node is selected and expanded; with the same
\* playout MCTSEnhancedAgent then leaves the same tree as MCTSAgent, with
\* the same visits and wins at every node.
C30_EnhancedIsPlain ==
    (agent.kind = "mcts" /\ search_pc = "iterate" /\ iteration < agent.param)
        => \A stop \in select(tree, 1, "mcts") :
              \A final \in rollout(SimulatedNode(tree, stop).board,
                                   SimulatedNode(tree, stop).player, 0) :
                  IterateOn(tree, "enhanced", stop, final)
                      = IterateOn(tree, "mcts", stop, final)

\* the rational x lies in [0, 1]
InUnitInterval(x) == x.den > 0 /\ 0 <= x.num /\ x.num <= x.den

\* the heuristic value the enhanced agent is to compute for board b when
\* root_player is to move at the root: 1, 0 or 1/2 as root_player wins,
\* loses or draws a terminal state, else (score + 200) / 400 cut to [0, 1];
\* evaluate_position is twice the score
HeuristicFor(b, root_player) ==
    IF is_game_over(b)
    THEN IF FinalDiffFor(b, root_player) > 0 THEN [num |-> 1, den |-> 1]
         ELSE IF FinalDiffFor(b, root_player) < 0 THEN [num |-> 0, den |-> 1]
         ELSE [num |-> 1, den |-> 2]
    ELSE IF evaluate_position(b, root_player) <= -400
    THEN [num |-> 0, den |-> 1]
    ELSE IF evaluate_position(b, root_player) >= 400
    THEN [num |-> 1, den |-> 1]
    ELSE Ratio(evaluate_position(b, root_player) + 400, 800)

\* the tree of the enhanced agent exists
EnhancedTree ==
    agent.kind = "enhanced" /\ search_pc \in {"iterate", "returned"}
        /\ tree # <<>>

\* C31: the heuristic value the enhanced agent computes for a node is 1, 0
\* or 0.5 on a terminal state and (score + 200) / 400 clamped to [0, 1]
\* otherwise (it is the first sample of a leaf), and the heuristic_value
\* stored at every node of the tree lies in [0, 1] after every iteration.
C31_HeuristicRange ==
    EnhancedTree =>
        \A n \in 1..Len(tree) :
            /\ InUnitInterval(tree[n].heuristic_value)
            /\ \A i \in 1..Len(tree[n].samples) :
                  InUnitInterval(tree[n].samples[i])
            /\ (tree[n].children = <<>> /\ tree[n].visits >= 1)
                  => tree[n].samples[1]
                         = HeuristicFor(tree[n].board, tree[1].player)

\* the tree holds a leaf on a state that is not terminal whose score lies
\* outside [-200, 200], so that the clamp acted, and a terminal leaf
C31_Witness ==
    /\ EnhancedTree
    /\ iteration >= 2
    /\ \E n \in 1..Len(tree) :
          /\ tree[n].children = <<>>
          /\ tree[n].visits >= 1
          /\ ~is_game_over(tree[n].board)
          /\ \/ evaluate_position(tree[n].board, tree[1].player) > 400
             \/ evaluate_position(tree[n].board, tree[1].player) < -400
    /\ \E n \in 1..Len(tree) :
          /\ tree[n].visits >= 1
          /\ is_game_over(tree[n].board)

RECURSIVE SumOfSamples(_)
\* the sum of a sequence of rationals
SumOfSamples(s) ==
    IF s = <<>> THEN [num |-> 0, den |-> 1]
    ELSE RatioAdd(Head(s), SumOfSamples(Tail(s)))

\* the rational x is the k-th part of the rational y
IsPartOf(x, y, k) == x.num * y.den * k = y.num * x.den

\* C32: the n-th visit of a node of the enhanced agent makes its heuristic
\* value (old_avg * (n - 1) + new_sample) / n, so that after n visits it is
\* the arithmetic mean of the n heuristic samples backpropagated to the
\* node; the first sample replaces the value stored at expansion.
C32_RunningAverage ==
    EnhancedTree =>
        \A n \in 1..Len(tree) :
            /\ Len(tree[n].samples) = tree[n].visits
            /\ tree[n].visits = 1
                  => tree[n].heuristic_value = tree[n].samples[1]
            /\ tree[n].visits >= 1
                  => IsPartOf(tree[n].heuristic_value,
                              SumOfSamples(tree[n].samples),
                              tree[n].visits)

\* a node has three visits or more with samples that differ, and its
\* heuristic value is no longer its first sample
C32_Witness ==
    /\ EnhancedTree
    /\ \E n \in 1..Len(tree) :
          /\ tree[n].visits >= 3
          /\ \E i, j \in 1..Len(tree[n].samples) :
                tree[n].samples[i] # tree[n].samples[j]
          /\ tree[n].heuristic_value # tree[n].samples[1]

\* evaluate_position has returned
Evaluated == last.op = "evaluate_position"

\* own store minus opponent store on board b for player
StoreDiff(b, player) ==
    IF player = PLAYER_SOUTH THEN b.south_kalah - b.north_kalah
    ELSE b.north_kalah - b.south_kalah

\* C33: evaluate_position(state, player) is 100 * (own store - opponent
\* store) + 0.5 * (own row - opponent row) + endgame, where endgame is
\* 50 * (own store - opponent store) when fewer than 10 counters are left
\* in the pits and 0 with 10 or more.  last.r is twice the value.
C33_HeuristicFormula ==
    Evaluated =>
        last.r = 200 * StoreDiff(last.board, last.player)
                 + (RowSum(last.board, last.player)
                      - RowSum(last.board, 1 - last.player))
                 + (IF RowSum(last.board, PLAYER_SOUTH)
                          + RowSum(last.board, PLAYER_NORTH) < 10
                    THEN 100 * StoreDiff(last.board, last.player)
                    ELSE 0)

\* evaluate_position was called with exactly 10 counters in the pits, the
\* player behind in the stores and ahead in the rows
C33_Witness ==
    /\ Evaluated
    /\ RowSum(last.board, PLAYER_SOUTH) + RowSum(last.board, PLAYER_NORTH)
           = 10
    /\ StoreDiff(last.board, last.player) < 0
    /\ RowSum(last.board, last.player) > RowSum(last.board, 1 - last.player)
    /\ last.r = 200 * StoreDiff(last.board, last.player)
                + RowSum(last.board, last.player)
                - RowSum(last.board, 1 - last.player)

\* the absolute value of an integer
Abs(x) == IF x >= 0 THEN x ELSE -x

EntryPlayer(entry) == entry[1]
EntryKind(entry) == entry[3]

\* the player whose agent is consulted after the moves of history
PlayerAfter(history) ==
    IF history = <<>> THEN PLAYER_SOUTH
    ELSE IF EntryKind(history[Len(history)]) = MOVE_EXTRA_TURN
    THEN EntryPlayer(history[Len(history)])
    ELSE 1 - EntryPlayer(history[Len(history)])

\* the turn order of a history: South first, the same player again exactly
\* after an EXTRA_TURN
TurnOrder(history) ==
    /\ history # <<>> => EntryPlayer(history[1]) = PLAYER_SOUTH
    /\ \A i \in 1..(Len(history) - 1) :
         (EntryPlayer(history[i + 1]) = EntryPlayer(history[i]))
            <=> (EntryKind(history[i]) = MOVE_EXTRA_TURN)

\* C35: the agent consulted for a move is that of the state's current player,
\* who is the player of the entry the move adds; move_history, in the loop and
\* in the result, starts with South and repeats a player exactly after an
\* EXTRA_TURN.
C35_TurnOrder ==
    /\ TurnOrder(move_history)
    /\ pc \in {"loop", "done"} => current_player = PlayerAfter(move_history)
    /\ (last.op = "play_step" /\ ~last.r.raised)
         => /\ last.player = PlayerAfter(SubSeq(move_history, 1,
                                                Len(move_history) - 1))
            /\ EntryPlayer(move_history[Len(move_history)]) = last.player
    /\ pc = "done" => /\ result.move_history = move_history
                      /\ TurnOrder(result.move_history)

\* C35 witness: a returned game in which a player moved twice in a row after
\* an extra turn, and in which a capture handed the turn over
C35_Witness ==
    /\ pc = "done"
    /\ \E i \in 1..(Len(result.move_history) - 1) :
         /\ EntryKind(result.move_history[i]) = MOVE_EXTRA_TURN
         /\ EntryPlayer(result.move_history[i + 1])
               = EntryPlayer(result.move_history[i])
    /\ \E i \in 1..(Len(result.move_history) - 1) :
         /\ EntryKind(result.move_history[i]) = MOVE_CAPTURE
         /\ EntryPlayer(result.move_history[i + 1])
               # EntryPlayer(result.move_history[i])

\* the counters of the pits weighted by how far each pit is along its row
PositionSum(b) ==
    SumRange([i \in 0..(2 * b.pits_per_row - 1) |->
                 b.pits[i] * (i % b.pits_per_row)],
             0, 2 * b.pits_per_row - 1)

\* a measure of progress of a game: the counters in the stores first, then
\* how far the counters of the pits are along their rows
Progress(b) ==
    (b.south_kalah + b.north_kalah) * (Total(b) * b.pits_per_row)
        + PositionSum(b)

\* C36 (state part): the progress of a game is bounded by its counters; in
\* a state of the loop that is not terminal the player to move has a legal
\* move; play_game leaves its loop only on a terminal state or at the cap,
\* never by the break on an empty list of legal moves.
C36_LegalMoveExists ==
    /\ Total(board) = 2 * cfg.pits_per_row * cfg.counters_per_pit
    /\ Progress(board) <= Total(board) * Total(board) * cfg.pits_per_row
    /\ (pc = "loop" /\ ~is_game_over(board))
         => get_legal_moves(board, current_player) # <<>>
    /\ last.op = "play_finish"
         => (is_game_over(last.board) \/ move_count = max_moves)

\* C36 (step part): every move of a game strictly increases its progress,
\* so that no board is met twice along a play.
C36_MoveProgresses ==
    move_count' # move_count => Progress(board') > Progress(board)

\* C36: every play is finite: each move strictly increases a measure that is
\* bounded, no state is repeated, a state that is not terminal has a legal
\* move for the player to move, and the break of the loop is never taken.
C36_GameEnds == []C36_LegalMoveExists /\ [][C36_MoveProgresses]_vars

\* C36 witness: a game that ran into a terminal state and returned, after a
\* move that put no counter into a store
C36_Witness ==
    /\ pc = "done"
    /\ is_game_over(board)
    /\ move_count < max_moves
    /\ \E i \in 1..Len(move_history) :
         EntryKind(move_history[i]) = MOVE_NORMAL
    /\ board.south_kalah + board.north_kalah < Len(move_history)

\* C37: when the loop of play_game ends in a terminal state the two scores of
\* the result add up to 2*P*C; when it ends at the cap in a state that is
\* not terminal nothing is swept and the scores are the two stores.
C37_FinalScores ==
    pc = "done"
        => IF is_game_over(board)
           THEN result.south_score + result.north_score
                    = 2 * cfg.pits_per_row * cfg.counters_per_pit
           ELSE /\ move_count = max_moves
                /\ result.south_score = board.south_kalah
                /\ result.north_score = board.north_kalah
                /\ last.final_board.pits = board.pits
                /\ get_total_counters(board) > 0

\* C37 witness: a game that ended in a terminal state with counters left on
\* the board, which the sweep added to a score
C37_Witness ==
    /\ pc = "done"
    /\ is_game_over(board)
    /\ get_total_counters(board) > 0
    /\ result.south_score + result.north_score
          > board.south_kalah + board.north_kalah

\* the nodes of tree u on the path from node n to the root that have a
\* parent gained wins as the chooser's perspective asks after a playout that
\* player x won: 1 where the parent's player to move is x, 0 elsewhere
ChooserPerspective(t, u, n, x) ==
    \A i \in 1..Len(u) :
        (LevelsAbove(u, n, i) # NONE /\ u[i].parent # 0)
            => u[i].wins2 - Wins2In(t, i)
                   = (IF u[u[i].parent].player = x THEN 2 ELSE 0)

\* C38: when the playout of an iteration of MCTSAgent started at a newly
\* added node and player X won it, every node on the path whose parent has X
\* to move gains 1 win and every node whose parent has X's opponent to move
\* gains 0.  The playout of a step is one that explains the statistics the
\* step left (see C27); its result r is for the player to move at the node.
C38_ChooserPerspective ==
    [][(agent.kind = "mcts" /\ search_pc = "iterate" /\ tree' # tree)
          => \E n \in Simulated(tree, tree') :
               \E result2 \in simulate(tree'[n].board, tree'[n].player,
                                       tree'[n].player, 0) :
                   /\ BackpropagatedFrom(tree, tree', n, result2)
                   /\ (n > Len(tree) /\ result2 # 1)
                         => ChooserPerspective(tree, tree', n,
                                IF result2 = 2 THEN tree'[n].player
                                ELSE 1 - tree'[n].player)]_vars

\* worker w is playing a game of its batch
Playing(w) == workers[w].pc = "game"

\* C39: whatever the interleaving of the calls of the controller with the
\* worker threads they start, no two worker threads are playing games at
\* the same time.
C39_OneWorkerAtATime ==
    \A v, w \in 1..Len(workers) : (Playing(v) /\ Playing(w)) => v = w

\* the visits of the children of node n of tree t, added up
ChildVisits(t, n) ==
    SumRange([j \in 1..Len(Children(t, n)) |-> t[Children(t, n)[j]].visits],
             1, Len(Children(t, n)))

\* an iteration of MCTSAgent has completed and the next has not begun
IterationCompleted ==
    agent.kind = "mcts" /\ search_pc = "iterate" /\ iteration >= 1

\* the statistics of every node: visited, and wins between 0 and visits
NodeStatistics(t) ==
    \A n \in 1..Len(t) :
        /\ t[n].visits >= 1
        /\ 0 <= t[n].wins2
        /\ t[n].wins2 <= 2 * t[n].visits

\* what select_child needs of every node _select can call it on (a node
\* that is not terminal and has no untried move): a child to return, no
\* child without a visit, and a visit count of its own that has a logarithm
SelectChildDefined(t) ==
    \A n \in 1..Len(t) :
        (~is_game_over(t[n].board) /\ t[n].untried_moves = <<>>)
            => /\ Children(t, n) # <<>>
               /\ t[n].visits >= 1
               /\ \A j \in 1..Len(Children(t, n)) :
                     t[Children(t, n)[j]].visits >= 1
               /\ select_child(t, n, "mcts") # {}

====
